---- MODULE Spec2Model ----
(***************************************************************************)
(* Model of the portable-package install-and-supervise pipeline of        *)
(* netpanel: catalog and download resolution, archive extraction, the      *)
(* install orchestrator and the process supervisor.                        *)
(*                                                                         *)
(* Paths are sequences of components below the file-system root; a URL is  *)
(* a record [base, ext] holding filepath.Base(url) and the lower-cased     *)
(* suffix extractArchive dispatches on.                                    *)
(***************************************************************************)
EXTENDS Integers, Sequences, FiniteSets, TLC

(***************************************************************************)
(* Bounds of the model.                                                    *)
(***************************************************************************)
MaxVersions == 2      \* versions of a synthetic package handed to GetDownloadURL
MaxEntries == 3       \* entries of an archive handed to the extractor
MaxChunks == 2        \* chunks a download body is read in
MaxOps == 2           \* supervisor / orchestrator calls in one behaviour
MaxFaults == 1        \* network / disk failures in one behaviour

(***************************************************************************)
(* Catalog (PortableCatalog).                                              *)
(***************************************************************************)
NoExec == <<>>
NoConfig == <<>>
NoURL == [base |-> "", ext |-> ""]

URL(base, ext) == [base |-> base, ext |-> ext]

PortableCatalog ==
  << [ID |-> "mysql", InstallPath |-> <<"database", "mysql">>,
      Executable |-> [windows |-> <<"bin", "mysqld.exe">>, linux |-> <<"bin", "mysqld">>,
                      darwin |-> <<"bin", "mysqld">>],
      ConfigFile |-> <<"my.cnf">>, Ports |-> <<3306>>,
      Versions |-> <<
        [Version |-> "8.0.35", Downloads |->
           ("windows/amd64" :> URL("mysql-8.0.35-winx64.zip", ".zip")) @@
           ("linux/amd64" :> URL("mysql-8.0.35-linux-glibc2.17-x86_64.tar.xz", ".tar.xz"))],
        [Version |-> "5.7.44", Downloads |->
           ("windows/amd64" :> URL("mysql-5.7.44-winx64.zip", ".zip")) @@
           ("linux/amd64" :> URL("mysql-5.7.44-linux-glibc2.12-x86_64.tar.gz", ".tar.gz"))] >>],
     [ID |-> "mariadb", InstallPath |-> <<"database", "mariadb">>,
      Executable |-> [windows |-> <<"bin", "mariadbd.exe">>, linux |-> <<"bin", "mariadbd">>,
                      darwin |-> <<"bin", "mariadbd">>],
      ConfigFile |-> NoConfig, Ports |-> <<3306>>,
      Versions |-> <<
        [Version |-> "11.2.2", Downloads |->
           ("windows/amd64" :> URL("mariadb-11.2.2-winx64.zip", ".zip")) @@
           ("linux/amd64" :> URL("mariadb-11.2.2-linux-systemd-x86_64.tar.gz", ".tar.gz"))],
        [Version |-> "10.11.6", Downloads |->
           ("windows/amd64" :> URL("mariadb-10.11.6-winx64.zip", ".zip")) @@
           ("linux/amd64" :> URL("mariadb-10.11.6-linux-systemd-x86_64.tar.gz", ".tar.gz"))] >>],
     [ID |-> "redis", InstallPath |-> <<"database", "redis">>,
      Executable |-> [windows |-> <<"redis-server.exe">>, linux |-> <<"src", "redis-server">>,
                      darwin |-> <<"src", "redis-server">>],
      ConfigFile |-> NoConfig, Ports |-> <<6379>>,
      Versions |-> <<
        [Version |-> "7.2.3", Downloads |->
           ("windows/amd64" :> URL("Redis-7.2.3-Windows-x64.zip", ".zip")) @@
           ("linux/amd64" :> URL("redis-7.2.3.tar.gz", ".tar.gz"))] >>],
     [ID |-> "php", InstallPath |-> <<"runtime", "php">>,
      Executable |-> [windows |-> <<"php.exe">>, linux |-> <<"bin", "php">>,
                      darwin |-> <<"bin", "php">>],
      ConfigFile |-> NoConfig, Ports |-> <<>>,
      Versions |-> <<
        [Version |-> "8.4.16", Downloads |->
           ("windows/amd64" :> URL("php-8.4.16-nts-Win32-vs17-x64.zip", ".zip"))],
        [Version |-> "8.3.29", Downloads |->
           ("windows/amd64" :> URL("php-8.3.29-nts-Win32-vs16-x64.zip", ".zip"))],
        [Version |-> "8.2.30", Downloads |->
           ("windows/amd64" :> URL("php-8.2.30-nts-Win32-vs16-x64.zip", ".zip"))],
        [Version |-> "8.1.34", Downloads |->
           ("windows/amd64" :> URL("php-8.1.34-nts-Win32-vs16-x64.zip", ".zip"))] >>],
     [ID |-> "nodejs", InstallPath |-> <<"runtime", "nodejs">>,
      Executable |-> [windows |-> <<"node.exe">>, linux |-> <<"bin", "node">>,
                      darwin |-> <<"bin", "node">>],
      ConfigFile |-> NoConfig, Ports |-> <<>>,
      Versions |-> <<
        [Version |-> "20.10.0", Downloads |->
           ("windows/amd64" :> URL("node-v20.10.0-win-x64.zip", ".zip")) @@
           ("linux/amd64" :> URL("node-v20.10.0-linux-x64.tar.xz", ".tar.xz")) @@
           ("darwin/amd64" :> URL("node-v20.10.0-darwin-x64.tar.gz", ".tar.gz")) @@
           ("darwin/arm64" :> URL("node-v20.10.0-darwin-arm64.tar.gz", ".tar.gz"))],
        [Version |-> "18.19.0", Downloads |->
           ("windows/amd64" :> URL("node-v18.19.0-win-x64.zip", ".zip")) @@
           ("linux/amd64" :> URL("node-v18.19.0-linux-x64.tar.xz", ".tar.xz")) @@
           ("darwin/amd64" :> URL("node-v18.19.0-darwin-x64.tar.gz", ".tar.gz"))] >>],
     [ID |-> "nginx", InstallPath |-> <<"webserver", "nginx">>,
      Executable |-> [windows |-> <<"nginx.exe">>, linux |-> <<"sbin", "nginx">>,
                      darwin |-> <<"sbin", "nginx">>],
      ConfigFile |-> <<"conf", "nginx.conf">>, Ports |-> <<80, 443>>,
      Versions |-> <<
        [Version |-> "1.25.3", Downloads |->
           ("windows/amd64" :> URL("nginx-1.25.3.zip", ".zip")) @@
           ("linux/amd64" :> URL("nginx-1.25.3.tar.gz", ".tar.gz"))],
        [Version |-> "1.24.0", Downloads |->
           ("windows/amd64" :> URL("nginx-1.24.0.zip", ".zip")) @@
           ("linux/amd64" :> URL("nginx-1.24.0.tar.gz", ".tar.gz"))] >>],
     [ID |-> "phpmyadmin", InstallPath |-> <<"addons", "phpmyadmin">>,
      Executable |-> [windows |-> NoExec, linux |-> NoExec, darwin |-> NoExec],
      ConfigFile |-> NoConfig, Ports |-> <<>>,
      Versions |-> <<
        [Version |-> "5.2.1", Downloads |->
           ("all" :> URL("phpMyAdmin-5.2.1-all-languages.zip", ".zip"))] >>],
     [ID |-> "adminer", InstallPath |-> <<"addons", "adminer">>,
      Executable |-> [windows |-> NoExec, linux |-> NoExec, darwin |-> NoExec],
      ConfigFile |-> NoConfig, Ports |-> <<>>,
      Versions |-> <<
        [Version |-> "4.8.1", Downloads |->
           ("all" :> URL("adminer-4.8.1.php", ".php"))] >>],
     [ID |-> "composer", InstallPath |-> <<"addons", "composer">>,
      Executable |-> [windows |-> <<"composer.phar">>, linux |-> <<"composer.phar">>,
                      darwin |-> <<"composer.phar">>],
      ConfigFile |-> NoConfig, Ports |-> <<>>,
      Versions |-> <<
        [Version |-> "2.6.6", Downloads |->
           ("all" :> URL("composer.phar", ".phar"))] >> ] >>

NoPackage == [ID |-> ""]

CatalogIDs == {PortableCatalog[i].ID : i \in DOMAIN PortableCatalog}

\* GetPortablePackageByID: the first catalog entry with that id, or nil.
GetPortablePackageByID(id) ==
  IF \E i \in DOMAIN PortableCatalog : PortableCatalog[i].ID = id
  THEN PortableCatalog[CHOOSE i \in DOMAIN PortableCatalog :
                         /\ PortableCatalog[i].ID = id
                         /\ \A j \in 1..(i - 1) : PortableCatalog[j].ID # id]
  ELSE NoPackage

VersionsOf(pkg) == {pkg.Versions[i].Version : i \in DOMAIN pkg.Versions}

(***************************************************************************)
(* Download URL resolver.                                                  *)
(***************************************************************************)
\* The platform key fmt.Sprintf("%s/%s", runtime.GOOS, runtime.GOARCH).
PlatformKey(os, arch) == os \o "/" \o arch

\* Index of the first version whose string equals `version`, 0 when none.
FindVersion(pkg, version) ==
  IF \E i \in DOMAIN pkg.Versions : pkg.Versions[i].Version = version
  THEN CHOOSE i \in DOMAIN pkg.Versions :
         /\ pkg.Versions[i].Version = version
         /\ \A j \in 1..(i - 1) : pkg.Versions[j].Version # version
  ELSE 0

\* Mutant: the exact platform key is looked up before "all".
GetDownloadURL_PlatformFirst(pkg, version, os, arch) ==
  LET i == FindVersion(pkg, version)
      key == PlatformKey(os, arch)
  IN IF i = 0 THEN [url |-> NoURL, err |-> "version_not_found"]
     ELSE LET d == pkg.Versions[i].Downloads
          IN IF key \in DOMAIN d THEN [url |-> d[key], err |-> "nil"]
             ELSE IF "all" \in DOMAIN d THEN [url |-> d["all"], err |-> "nil"]
             ELSE [url |-> NoURL, err |-> "no_download"]

\* Mutant: the wildcard "all" key is never consulted.
GetDownloadURL_NoWildcard(pkg, version, os, arch) ==
  LET i == FindVersion(pkg, version)
      key == PlatformKey(os, arch)
  IN IF i = 0 THEN [url |-> NoURL, err |-> "version_not_found"]
     ELSE LET d == pkg.Versions[i].Downloads
          IN IF key \in DOMAIN d THEN [url |-> d[key], err |-> "nil"]
             ELSE [url |-> NoURL, err |-> "no_download"]

GetDownloadURL(pkg, version, os, arch) ==
  LET i == FindVersion(pkg, version)
      key == PlatformKey(os, arch)
  IN IF i = 0 THEN [url |-> NoURL, err |-> "version_not_found"]
     ELSE LET d == pkg.Versions[i].Downloads
          IN IF "all" \in DOMAIN d THEN [url |-> d["all"], err |-> "nil"]
             ELSE IF key \in DOMAIN d THEN [url |-> d[key], err |-> "nil"]
             ELSE [url |-> NoURL, err |-> "no_download"]

(***************************************************************************)
(* Paths (path/filepath).                                                  *)
(***************************************************************************)
RECURSIVE CleanFrom(_, _)
\* filepath.Clean of a rooted path: "" and "." vanish, ".." drops the last
\* component kept so far (and vanishes at the root).
CleanFrom(stack, rest) ==
  IF rest = <<>> THEN stack
  ELSE LET c == Head(rest)
       IN CleanFrom(IF c \in {"", "."} THEN stack
                    ELSE IF c = ".."
                         THEN (IF stack = <<>> THEN <<>>
                               ELSE SubSeq(stack, 1, Len(stack) - 1))
                         ELSE Append(stack, c),
                    Tail(rest))

\* filepath.Join(dest, rel) for an absolute, clean dest.
Join(dest, rel) == CleanFrom(<<>>, dest \o rel)

\* filepath.Dir of a clean rooted path.
Dir(p) == IF p = <<>> THEN <<>> ELSE SubSeq(p, 1, Len(p) - 1)

Last(seq) == seq[Len(seq)]

Prefixes(p) == {SubSeq(p, 1, k) : k \in 1..Len(p)}

IsPrefix(a, b) == Len(a) <= Len(b) /\ SubSeq(b, 1, Len(a)) = a

\* GetBaseDir: the "server" directory beside the running executable.
GetBaseDir == <<"opt", "netpanel", "server">>

InstallPathOf(pkg, version) == Join(GetBaseDir, pkg.InstallPath \o <<version>>)

TempDir == Join(GetBaseDir, <<".temp">>)

(***************************************************************************)
(* File system: fs.d is the set of directories, fs.f maps every regular    *)
(* file to its content.                                                    *)
(***************************************************************************)
Data(tag) == [kind |-> "data", tag |-> tag, entries |-> <<>>, chunks |-> {}, gen |-> 0]
\* A file whose write stopped partway (opened with O_TRUNC, copy failed).
Partial == [kind |-> "partial", tag |-> "", entries |-> <<>>, chunks |-> {}, gen |-> 0]
\* A downloaded body: the chunks 1..chunks of its MaxChunks chunks are in the
\* file; gen tells the files apart that were created at one path in turn.
Body(tag, entries, chunks) ==
  [kind |-> "body", tag |-> tag, entries |-> entries, chunks |-> 1..chunks, gen |-> 0]

Exists(fs, p) == p \in fs.d \/ p \in DOMAIN fs.f

Put(f, p, c) == (p :> c) @@ f

Drop(f, S) == [q \in (DOMAIN f) \ S |-> f[q]]

\* os.MkdirAll fails when a component of the path is a regular file.
MkdirAllOK(fs, p) == \A q \in Prefixes(p) : q \notin DOMAIN fs.f

MkdirAll(fs, p) ==
  IF MkdirAllOK(fs, p) THEN [fs EXCEPT !.d = @ \cup Prefixes(p)] ELSE fs

\* os.Create / os.OpenFile(O_CREATE|O_TRUNC) fails on a directory or when the
\* parent directory is missing.
CreateOK(fs, p) == p # <<>> /\ p \notin fs.d /\ (Dir(p) = <<>> \/ Dir(p) \in fs.d)

WriteFile(fs, p, c) == [fs EXCEPT !.f = Put(@, p, c)]

\* os.RemoveAll(p).
RemoveAll(fs, p) ==
  [d |-> {q \in fs.d : ~IsPrefix(p, q)},
   f |-> Drop(fs.f, {q \in DOMAIN fs.f : IsPrefix(p, q)})]

Under(fs, p) ==
  [d |-> {q \in fs.d : IsPrefix(p, q)},
   f |-> [q \in {r \in DOMAIN fs.f : IsPrefix(p, r)} |-> fs.f[q]]]

(***************************************************************************)
(* Archive extractor.  An archive is a sequence of entries                 *)
(* [name, type, data]: name is strings.Split(entry name, "/") (a trailing  *)
(* slash gives a last component ""), type is "dir" or "reg", data names    *)
(* the bytes of a regular file.                                            *)
(***************************************************************************)
Entry(name, type, data) == [name |-> name, type |-> type, data |-> data]

ZipFormats == {".zip"}
TarGzFormats == {".tar.gz", ".tgz"}
TarXzFormats == {".tar.xz"}
SingleFileFormats == {".phar", ".php"}
ArchiveFormats == ZipFormats \cup TarGzFormats \cup TarXzFormats

RECURSIVE ZipScan(_, _, _)
\* The first loop of extractZip: hasRootDir and rootDirName.
ZipScan(entries, i, root) ==
  IF i > Len(entries) THEN [has |-> TRUE, root |-> root]
  ELSE LET f == entries[i]
       IN IF Len(f.name) = 1 /\ f.type # "dir" THEN [has |-> FALSE, root |-> root]
          ELSE IF root = "" THEN ZipScan(entries, i + 1, f.name[1])
          ELSE IF f.name[1] # root THEN [has |-> FALSE, root |-> root]
          ELSE ZipScan(entries, i + 1, root)

NoScan == [has |-> FALSE, root |-> ""]

\* The target path extractZip computes for entry f, or skip for the root
\* directory entry itself.
ZipTarget(scan, f, dest) ==
  IF scan.has /\ scan.root # ""
  THEN IF Len(f.name) > 1
       THEN [skip |-> FALSE, path |-> Join(dest, Tail(f.name))]
       ELSE [skip |-> TRUE, path |-> dest]
  ELSE [skip |-> FALSE, path |-> Join(dest, f.name)]

\* extractTar: strings.SplitN(header.Name, "/", 2), the part after the first
\* slash when there is one.
TarTarget(h, dest) ==
  [skip |-> FALSE,
   path |-> IF Len(h.name) > 1 THEN Join(dest, Tail(h.name)) ELSE Join(dest, h.name)]

NonEmpty(name) == SelectSeq(name, LAMBDA c : c # "")

\* extractTarXz: tar -xJf src -C dest --strip-components=1 drops the first
\* component of every member and skips a member with nothing left.
TarXzTarget(h, dest) ==
  IF Len(NonEmpty(h.name)) > 1
  THEN [skip |-> FALSE, path |-> Join(dest, Tail(NonEmpty(h.name)))]
  ELSE [skip |-> TRUE, path |-> dest]

\* Writing one regular file: parent directories, create/truncate, copy.
\* io = "fail" is an I/O error during the copy, after the truncation.
ExtractFile(fs, path, data, io) ==
  IF ~MkdirAllOK(fs, Dir(path)) THEN [fs |-> fs, err |-> "mkdir"]
  ELSE LET fs1 == MkdirAll(fs, Dir(path))
       IN IF ~CreateOK(fs1, path) THEN [fs |-> fs1, err |-> "open"]
          ELSE IF io = "fail" THEN [fs |-> WriteFile(fs1, path, Partial), err |-> "copy"]
          ELSE [fs |-> WriteFile(fs1, path, Data(data)), err |-> "nil"]

\* One iteration of the second loop of extractZip.
ZipEntryStep(scan, f, dest, fs, io) ==
  LET t == ZipTarget(scan, f, dest)
  IN IF t.skip THEN [fs |-> fs, err |-> "nil"]
     ELSE IF f.type = "dir" THEN [fs |-> MkdirAll(fs, t.path), err |-> "nil"]
     ELSE ExtractFile(fs, t.path, f.data, io)

\* One iteration of the loop of extractTar.
TarEntryStep(h, dest, fs, io) ==
  LET t == TarTarget(h, dest)
  IN IF h.type = "dir"
     THEN IF io = "fail" \/ ~MkdirAllOK(fs, t.path) THEN [fs |-> fs, err |-> "mkdir"]
          ELSE [fs |-> MkdirAll(fs, t.path), err |-> "nil"]
     ELSE ExtractFile(fs, t.path, h.data, io)

\* One member of the external tar run of extractTarXz.
TarXzEntryStep(h, dest, fs, io) ==
  LET t == TarXzTarget(h, dest)
  IN IF t.skip THEN [fs |-> fs, err |-> "nil"]
     ELSE IF h.type = "dir"
     THEN IF io = "fail" \/ ~MkdirAllOK(fs, t.path) THEN [fs |-> fs, err |-> "mkdir"]
          ELSE [fs |-> MkdirAll(fs, t.path), err |-> "nil"]
     ELSE ExtractFile(fs, t.path, h.data, io)

\* copyFile(src, dest) of a single-file package (.phar, .php).
CopyFile(fs, src, dest, io) ==
  IF src \notin DOMAIN fs.f THEN [fs |-> fs, err |-> "open"]
  ELSE IF ~MkdirAllOK(fs, Dir(dest)) THEN [fs |-> fs, err |-> "mkdir"]
  ELSE LET fs1 == MkdirAll(fs, Dir(dest))
       IN IF ~CreateOK(fs1, dest) THEN [fs |-> fs1, err |-> "open"]
          ELSE IF io = "fail" THEN [fs |-> WriteFile(fs1, dest, Partial), err |-> "copy"]
          ELSE [fs |-> WriteFile(fs1, dest, [fs.f[src] EXCEPT !.gen = 0]), err |-> "nil"]

\* The entry step extractArchive's dispatch on the suffix selects.
ExtractEntryStep(ext, scan, e, dest, fs, io) ==
  IF ext \in ZipFormats THEN ZipEntryStep(scan, e, dest, fs, io)
  ELSE IF ext \in TarGzFormats THEN TarEntryStep(e, dest, fs, io)
  ELSE TarXzEntryStep(e, dest, fs, io)

(***************************************************************************)
(* State.                                                                  *)
(***************************************************************************)
VARIABLES
  goos, goarch,   \* runtime.GOOS, runtime.GOARCH of the running panel
  focus,          \* the (package id, version) the calls of a behaviour address
  served,         \* the entries of the archive the download location serves
  dirs, files,    \* the file system
  db,             \* rows of the InstalledPackage table
  procs,          \* running processes
  inst,           \* the InstallPortablePackage call of every caller
  st,             \* the StartService call in flight
  ret,            \* what the last Uninstall / Status / Stop call returned
  ops,            \* calls begun so far
  faults,         \* network and disk failures so far
  mon,            \* history of the calls on the focus instance
  resolve,        \* input and output of a GetDownloadURL call
  hub,            \* the websocket hub, its clients and its goroutines
  cron            \* the cron service: job table, scheduler, jobMap, calls

vars == <<goos, goarch, focus, served, dirs, files, db, procs, inst, st, ret, ops,
          faults, mon, resolve, hub, cron>>

CallerIDs == {"c1", "c2"}

FS == [d |-> dirs, f |-> files]

Platforms ==
  { [os |-> "windows", arch |-> "amd64"], [os |-> "linux", arch |-> "amd64"],
    [os |-> "darwin", arch |-> "arm64"] }

Instances ==
  UNION { { [id |-> PortableCatalog[i].ID, version |-> v] :
            v \in VersionsOf(PortableCatalog[i]) } : i \in DOMAIN PortableCatalog }

(***************************************************************************)
(* InstallProgress.  Progress is the fraction num/den.                     *)
(***************************************************************************)
Frac(n, d) == [num |-> n, den |-> d]

NoProgress ==
  [PackageID |-> "", Version |-> "", Status |-> "", Progress |-> Frac(0, 1),
   InstallPath |-> <<>>, Error |-> ""]

Snapshot(p) == [Status |-> p.Status, Progress |-> p.Progress]

\* Mutant: the extracting stage is announced as configuring.
ExtractingSnapshot_Skipped(p) ==
  [p EXCEPT !.Status = "configuring", !.Progress = Frac(50, 1)]

ExtractingSnapshot(p) == [p EXCEPT !.Status = "extracting", !.Progress = Frac(50, 1)]

ConfiguringSnapshot(p) == [p EXCEPT !.Status = "configuring", !.Progress = Frac(90, 1)]

CompleteSnapshot(p) == [p EXCEPT !.Status = "complete", !.Progress = Frac(100, 1)]

ErrorSnapshot(p, e) == [p EXCEPT !.Status = "error", !.Error = e]

\* Mutant: the error of extractArchive is dropped.
ExtractFailed_Ignored(err) == FALSE

\* if err := extractArchive(tempFile, installPath); err != nil
ExtractFailed(err) == err # "nil"

IdleCall ==
  [pc |-> "idle", id |-> "", version |-> "", installPath |-> <<>>, tempFile |-> <<>>,
   tag |-> "", ext |-> "", progress |-> NoProgress, nilResult |-> TRUE, err |-> "nil",
   entries |-> <<>>, scan |-> NoScan, idx |-> 0, downloaded |-> 0, total |-> 0,
   reported |-> <<>>, call |-> 0, fd |-> 0]

\* return nil, err
ReturnNil(call, id, version, e) ==
  [IdleCall EXCEPT !.pc = "returned", !.id = id, !.version = version, !.err = e]

\* progress.Status = "error"; progress.Error = err.Error(); return &progress, err
ReturnError(call, e) ==
  LET p == ErrorSnapshot(call.progress, e)
  IN [IdleCall EXCEPT !.pc = "returned", !.id = call.id, !.version = call.version,
                      !.progress = p, !.nilResult = FALSE, !.err = e,
                      !.reported = Append(call.reported, Snapshot(p))]

\* callback(progress)
Callback(call, p) == [call EXCEPT !.progress = p, !.reported = Append(@, Snapshot(p))]

IsFocus(id, version) == id = focus.id /\ version = focus.version

\* History of the focus instance: the two last calls that returned, and the
\* position in an install / install sequence started on an absent directory.
Note(id, version, tag, twice) ==
  IF IsFocus(id, version)
  THEN [lastOp |-> tag, prevOp |-> mon.lastOp, twice |-> twice]
  ELSE mon

(***************************************************************************)
(* Install orchestrator (InstallPortablePackage), one action per blocking  *)
(* step.  Inputs named net, mk, io are the outcomes of the network and the *)
(* disk.                                                                   *)
(***************************************************************************)
Inputs ==
  {focus, [id |-> "unknown", version |-> focus.version],
   [id |-> focus.id, version |-> "0.0.0"]}

\* The outcomes the network or the disk may still produce.
Outcomes(bad) == IF faults < MaxFaults THEN {"ok"} \cup bad ELSE {"ok"}

Fault(outcome) == faults' = IF outcome = "ok" THEN faults ELSE faults + 1

InFlight(c) == inst[c].pc \notin {"idle", "returned"}

OthersInFlight(c) == \E o \in CallerIDs \ {c} : InFlight(o)

TwiceOnBegin == 
  IF mon.twice = "clean" THEN "first"
  ELSE IF mon.twice = "first_done" THEN "second"
  ELSE "none"

TwiceOnError == IF mon.twice = "second" THEN "second_failed" ELSE "none"

TwiceOnComplete ==
  IF mon.twice = "first" THEN "first_done"
  ELSE IF mon.twice = "second" THEN "second_done"
  ELSE "none"

\* Mutant: every call downloads to a scratch file of its own.
ScratchFile_PerCall(c, url) == Join(TempDir, <<c, url.base>>)

\* Lines 1260-1261: fileName := filepath.Base(downloadURL); tempFile :=
\* filepath.Join(tempDir, fileName); the caller has no part in the name.
ScratchFile(c, url) == Join(TempDir, <<url.base>>)

\* Lines 1222-1258: lookups, directories, the first snapshot.
InstallBegin(c, id, version) ==
  /\ ~InFlight(c)
  /\ ops < MaxOps
  /\ ops' = ops + 1
  /\ LET pkg == GetPortablePackageByID(id)
         r == GetDownloadURL(pkg, version, goos, goarch)
         installPath == InstallPathOf(pkg, version)
     IN IF pkg.ID = ""
        THEN /\ inst' = [inst EXCEPT ![c] = ReturnNil(@, id, version, "package_not_found")]
             /\ UNCHANGED <<dirs, files, mon, faults>>
        ELSE IF r.err # "nil"
        THEN /\ inst' = [inst EXCEPT ![c] = ReturnNil(@, id, version, r.err)]
             /\ UNCHANGED <<dirs, files, mon, faults>>
        ELSE \E mk \in Outcomes({"fail_install", "fail_temp"}) :
               /\ Fault(mk)
               /\ IF mk = "fail_install" \/ ~MkdirAllOK(FS, installPath)
                  THEN /\ inst' = [inst EXCEPT ![c] = ReturnNil(@, id, version, "mkdir_install")]
                       /\ mon' = Note(id, version, "install_nil",
                                      IF mon.twice = "clean" THEN "clean" ELSE "none")
                       /\ UNCHANGED <<dirs, files>>
                  ELSE IF mk = "fail_temp" \/ ~MkdirAllOK(FS, TempDir)
                  THEN /\ inst' = [inst EXCEPT ![c] = ReturnNil(@, id, version, "mkdir_temp")]
                       /\ dirs' = MkdirAll(FS, installPath).d
                       /\ mon' = Note(id, version, "install_nil", "none")
                       /\ UNCHANGED files
                  ELSE /\ dirs' = MkdirAll(MkdirAll(FS, installPath), TempDir).d
                       /\ inst' = [inst EXCEPT ![c] =
                            Callback([IdleCall EXCEPT
                                        !.pc = "downloading", !.id = id, !.version = version,
                                        !.installPath = installPath,
                                        !.tempFile = ScratchFile(c, r.url),
                                        !.tag = r.url.base, !.ext = r.url.ext,
                                        !.nilResult = FALSE, !.call = ops + 1],
                                     [NoProgress EXCEPT
                                        !.PackageID = id, !.Version = version,
                                        !.Status = "downloading", !.Progress = Frac(0, 1),
                                        !.InstallPath = installPath])]
                       /\ mon' = IF IsFocus(id, version)
                                 THEN [mon EXCEPT !.twice =
                                         IF OthersInFlight(c) THEN "none" ELSE TwiceOnBegin]
                                 ELSE mon
                       /\ UNCHANGED files
  /\ UNCHANGED <<hub, cron, goos, goarch, focus, served, db, procs, st, ret, resolve>>

\* os.Create, line 1340: a file that is there is truncated and stays the same
\* file, a file that is not there is a new one.
CreateGen(f, call) ==
  IF call.tempFile \in DOMAIN f THEN f[call.tempFile].gen ELSE call.call

\* downloadFile, lines 1331-1349: the request and the creation of the file.
DownloadStart(c) ==
  /\ inst[c].pc = "downloading"
  /\ \E net \in Outcomes({"fail"}), total \in {MaxChunks, -1} :
       IF net = "fail" \/ ~CreateOK(FS, inst[c].tempFile)
       THEN /\ Fault(net)
            /\ inst' = [inst EXCEPT ![c] = ReturnError(@, "download")]
            /\ mon' = Note(inst[c].id, inst[c].version, "install_error", TwiceOnError)
            /\ UNCHANGED files
       ELSE /\ files' = Put(files, inst[c].tempFile,
                             [Body(inst[c].tag, served, 0)
                                EXCEPT !.gen = CreateGen(files, inst[c])])
            /\ inst' = [inst EXCEPT ![c].pc = "reading", ![c].total = total,
                                    ![c].downloaded = 0,
                                    ![c].fd = CreateGen(files, inst[c])]
            /\ UNCHANGED <<mon, faults>>
  /\ UNCHANGED <<hub, cron, goos, goarch, focus, served, dirs, db, procs, st, ret, ops, resolve>>

\* Mutant: the download is mapped to 0-100.
DownloadProgress_Percent(call, downloaded) ==
  IF call.total > 0
  THEN Callback(call, [call.progress EXCEPT !.Progress = Frac(downloaded * 100, call.total)])
  ELSE call

\* The progress function handed to downloadFile, lines 1264-1271.
DownloadProgress(call, downloaded) ==
  IF call.total > 0
  THEN Callback(call, [call.progress EXCEPT !.Progress = Frac(downloaded * 50, call.total)])
  ELSE call

\* What out.Write of chunk n leaves at path p: the chunk goes to the offset
\* of the writer's descriptor fd, in the file the descriptor was opened on.
AppendChunk(f, p, n, fd) ==
  IF p \in DOMAIN f /\ f[p].kind = "body" /\ f[p].gen = fd
  THEN Put(f, p, [f[p] EXCEPT !.chunks = @ \cup {n}])
  ELSE f

\* downloadFile, lines 1351-1368, one chunk per step; after the last chunk
\* lines 1278-1283 announce the extracting stage.
DownloadChunk(c) ==
  /\ inst[c].pc = "reading"
  /\ \E net \in Outcomes({"fail"}) :
       IF net = "fail"
       THEN /\ Fault(net)
            /\ inst' = [inst EXCEPT ![c] = ReturnError(@, "download")]
            /\ mon' = Note(inst[c].id, inst[c].version, "install_error", TwiceOnError)
            /\ UNCHANGED files
       ELSE LET n == inst[c].downloaded + 1
                call == DownloadProgress([inst[c] EXCEPT !.downloaded = n], n)
            IN /\ files' = AppendChunk(files, inst[c].tempFile, n, inst[c].fd)
               /\ inst' = [inst EXCEPT ![c] =
                    IF n = MaxChunks
                    THEN [Callback(call, ExtractingSnapshot(call.progress))
                            EXCEPT !.pc = "extract_open"]
                    ELSE call]
               /\ UNCHANGED <<mon, faults>>
  /\ UNCHANGED <<hub, cron, goos, goarch, focus, served, dirs, db, procs, st, ret, ops, resolve>>

\* Lines 1292-1300: the scratch file is removed, configuring is announced.
AfterExtract(call) ==
  [Callback(call, ConfiguringSnapshot(call.progress)) EXCEPT !.pc = "configuring"]

\* The body extractArchive can read at the scratch path: complete or unusable.
Readable(f, p) == p \in DOMAIN f /\ f[p].kind = "body" /\ f[p].chunks = 1..MaxChunks

\* The archive a call is reading was truncated by the os.Create of another
\* call.
Torn(call) ==
  /\ call.tempFile \in DOMAIN files
  /\ files[call.tempFile].gen = call.fd
  /\ ~Readable(files, call.tempFile)

\* Another call holds the file at path p open.
HeldOpen(f, c, p) ==
  \E o \in CallerIDs \ {c} :
    /\ inst[o].pc \in {"reading", "extracting"}
    /\ inst[o].tempFile = p
    /\ p \in DOMAIN f
    /\ f[p].gen = inst[o].fd

\* os.Remove(tempFile), line 1293, its error dropped: Windows refuses to
\* delete a file another descriptor holds open.
RemoveTemp(f, c, p) ==
  IF goos = "windows" /\ HeldOpen(f, c, p) THEN f ELSE Drop(f, {p})

\* extractArchive, lines 1374-1389, and the opening of the archive.
ExtractOpen(c) ==
  /\ inst[c].pc = "extract_open"
  /\ LET call == inst[c]
         fail(fs, e) ==
           /\ inst' = [inst EXCEPT ![c] = ReturnError(@, e)]
           /\ mon' = Note(call.id, call.version, "install_error", TwiceOnError)
           /\ dirs' = fs.d
           /\ files' = fs.f
     IN IF call.ext \in ArchiveFormats
        THEN /\ UNCHANGED faults
             /\ IF ~Readable(files, call.tempFile)
                THEN IF ExtractFailed("open") THEN fail(FS, "open")
                     ELSE /\ inst' = [inst EXCEPT ![c] = AfterExtract(call)]
                          /\ files' = RemoveTemp(files, c, call.tempFile)
                          /\ UNCHANGED <<dirs, mon>>
                ELSE LET entries == files[call.tempFile].entries
                         opened == [call EXCEPT
                                      !.entries = entries,
                                      !.scan = IF call.ext \in ZipFormats
                                               THEN ZipScan(entries, 1, "") ELSE NoScan,
                                      !.idx = 0, !.pc = "extracting",
                                      !.fd = files[call.tempFile].gen]
                     IN IF entries = <<>>
                        THEN /\ inst' = [inst EXCEPT ![c] = AfterExtract(opened)]
                             /\ files' = RemoveTemp(files, c, call.tempFile)
                             /\ UNCHANGED <<dirs, mon>>
                        ELSE /\ inst' = [inst EXCEPT ![c] = opened]
                             /\ UNCHANGED <<dirs, files, mon>>
        ELSE IF call.ext \in SingleFileFormats
        THEN \E io \in Outcomes({"fail"}) :
               LET res == CopyFile(FS, call.tempFile,
                                   Join(call.installPath, <<call.tag>>), io)
               IN /\ Fault(io)
                  /\ IF ExtractFailed(res.err) THEN fail(res.fs, res.err)
                     ELSE /\ inst' = [inst EXCEPT ![c] = AfterExtract(call)]
                          /\ dirs' = res.fs.d
                          /\ files' = RemoveTemp(res.fs.f, c, call.tempFile)
                          /\ UNCHANGED mon
        ELSE /\ UNCHANGED faults
             /\ IF ExtractFailed("unsupported") THEN fail(FS, "unsupported")
                ELSE /\ inst' = [inst EXCEPT ![c] = AfterExtract(call)]
                     /\ files' = RemoveTemp(files, c, call.tempFile)
                     /\ UNCHANGED <<dirs, mon>>
  /\ UNCHANGED <<hub, cron, goos, goarch, focus, served, db, procs, st, ret, ops, resolve>>

\* One entry of extractZip / extractTar / the tar run of extractTarXz; the
\* extractor stops at the first error, and after the last entry lines
\* 1292-1300 follow.
ExtractEntry(c) ==
  /\ inst[c].pc = "extracting"
  /\ inst[c].idx < Len(inst[c].entries)
  /\ \E out \in Outcomes({"fail"}) \cup (IF Torn(inst[c]) THEN {"torn"} ELSE {}) :
       LET call == inst[c]
           i == call.idx + 1
           io == IF out = "torn" THEN "ok" ELSE out
           res == ExtractEntryStep(call.ext, call.scan, call.entries[i],
                                   call.installPath, FS,
                                   IF out = "torn" THEN "fail" ELSE out)
       IN IF res.err # "nil" /\ ExtractFailed(res.err)
          THEN /\ Fault(io)
               /\ inst' = [inst EXCEPT ![c] = ReturnError(@, res.err)]
               /\ mon' = Note(call.id, call.version, "install_error", TwiceOnError)
               /\ dirs' = res.fs.d
               /\ files' = res.fs.f
          ELSE IF res.err # "nil" \/ i = Len(call.entries)
          THEN /\ inst' = [inst EXCEPT ![c] = AfterExtract([call EXCEPT !.idx = i])]
               /\ dirs' = res.fs.d
               /\ files' = RemoveTemp(res.fs.f, c, call.tempFile)
               /\ Fault(io)
               /\ UNCHANGED mon
          ELSE /\ inst' = [inst EXCEPT ![c].idx = i]
               /\ dirs' = res.fs.d
               /\ files' = res.fs.f
               /\ Fault(io)
               /\ UNCHANGED mon
  /\ UNCHANGED <<hub, cron, goos, goarch, focus, served, db, procs, st, ret, ops, resolve>>

\* The template createDefaultConfig writes for a package id ("" for none).
CreateDefaultTemplate(id) ==
  IF id \in {"mysql", "mariadb"} THEN "createDefaultConfig:mysqld"
  ELSE IF id = "nginx" THEN "createDefaultConfig:nginx"
  ELSE ""

\* Mutant: the template is written over a config file that is there.
CreateDefaultConfig_Overwrite(fs, pkg, installPath) ==
  LET configPath == Join(installPath, pkg.ConfigFile)
  IN IF CreateDefaultTemplate(pkg.ID) # "" /\ CreateOK(fs, configPath)
     THEN WriteFile(fs, configPath, Data(CreateDefaultTemplate(pkg.ID)))
     ELSE fs

\* createDefaultConfig, lines 1553-1605.
CreateDefaultConfig(fs, pkg, installPath) ==
  LET configPath == Join(installPath, pkg.ConfigFile)
  IN IF Exists(fs, configPath) THEN fs
     ELSE IF CreateDefaultTemplate(pkg.ID) # "" /\ CreateOK(fs, configPath)
          THEN WriteFile(fs, configPath, Data(CreateDefaultTemplate(pkg.ID)))
          ELSE fs

Row(id, version) == [PackageID |-> id, Version |-> version]

\* Lines 1302-1326: default config, metadata row, the complete snapshot.
InstallFinish(c) ==
  /\ inst[c].pc = "configuring"
  /\ LET call == inst[c]
         pkg == GetPortablePackageByID(call.id)
         fs == IF pkg.ConfigFile # NoConfig
               THEN CreateDefaultConfig(FS, pkg, call.installPath) ELSE FS
         done == Callback(call, CompleteSnapshot(call.progress))
     IN /\ dirs' = fs.d
        /\ files' = fs.f
        /\ db' = Append(db, Row(call.id, call.version))
        /\ inst' = [inst EXCEPT ![c] =
             [IdleCall EXCEPT !.pc = "returned", !.id = call.id, !.version = call.version,
                              !.progress = done.progress, !.nilResult = FALSE,
                              !.reported = Append(done.reported, Snapshot(done.progress))]]
        /\ mon' = Note(call.id, call.version, "install_complete",
                       IF OthersInFlight(c) THEN "none" ELSE TwiceOnComplete)
  /\ UNCHANGED <<hub, cron, goos, goarch, focus, served, procs, st, ret, ops, faults, resolve>>

(***************************************************************************)
(* Uninstall and the status probe.                                         *)
(***************************************************************************)
NoStatus ==
  [Running |-> FALSE, PID |-> 0, Port |-> 0, InstallPath |-> <<>>, ConfigPath |-> <<>>,
   LogPath |-> <<>>]

NoRet ==
  [op |-> "", id |-> "", version |-> "", err |-> "nil", status |-> NoStatus,
   matched |-> 0, graceful |-> "none", killErr |-> "none", steps |-> <<>>,
   path |-> <<>>, content |-> Partial, wrote |-> FALSE, seq |-> 0]

Returned(op, id, version, err) ==
  [NoRet EXCEPT !.op = op, !.id = id, !.version = version, !.err = err]

AnyInFlight == \E c \in CallerIDs : InFlight(c)

\* What a failing os.RemoveAll has removed when it gives up: nothing, or the
\* regular files but not the directories.
RemoveAllPartly(fs, p, rm) ==
  IF rm = "fail_files"
  THEN [fs EXCEPT !.f = Drop(@, {q \in DOMAIN fs.f : IsPrefix(p, q)})]
  ELSE fs

\* Mutant: the directory is left in place and only the row is deleted.
UninstallPortablePackage_KeepDir(id, version) ==
  /\ ops < MaxOps
  /\ ops' = ops + 1
  /\ LET pkg == GetPortablePackageByID(id)
         installPath == InstallPathOf(pkg, version)
     IN IF pkg.ID = ""
        THEN /\ ret' = Returned("uninstall", id, version, "package_not_found")
             /\ UNCHANGED <<dirs, files, db, mon, faults>>
        ELSE IF ~Exists(FS, installPath)
        THEN /\ ret' = Returned("uninstall", id, version, "not_installed")
             /\ UNCHANGED <<dirs, files, db, mon, faults>>
        ELSE /\ UNCHANGED <<dirs, files, faults>>
             /\ db' = SelectSeq(db, LAMBDA r : r # Row(id, version))
             /\ ret' = Returned("uninstall", id, version, "nil")
             /\ mon' = Note(id, version, "uninstall_ok", "none")
  /\ UNCHANGED <<hub, cron, goos, goarch, focus, served, procs, inst, st, resolve>>

\* UninstallPortablePackage, lines 1636-1657.
UninstallPortablePackage(id, version) ==
  /\ ops < MaxOps
  /\ ops' = ops + 1
  /\ LET pkg == GetPortablePackageByID(id)
         installPath == InstallPathOf(pkg, version)
     IN IF pkg.ID = ""
        THEN /\ ret' = Returned("uninstall", id, version, "package_not_found")
             /\ UNCHANGED <<dirs, files, db, mon, faults>>
        ELSE IF ~Exists(FS, installPath)
        THEN /\ ret' = Returned("uninstall", id, version, "not_installed")
             /\ UNCHANGED <<dirs, files, db, mon, faults>>
        ELSE \E rm \in Outcomes({"fail_none", "fail_files"}) :
               /\ Fault(rm)
               /\ IF rm # "ok"
                  THEN /\ dirs' = RemoveAllPartly(FS, installPath, rm).d
                       /\ files' = RemoveAllPartly(FS, installPath, rm).f
                       /\ ret' = Returned("uninstall", id, version, "remove")
                       /\ mon' = Note(id, version, "uninstall_err", "none")
                       /\ UNCHANGED db
                  ELSE /\ dirs' = RemoveAll(FS, installPath).d
                       /\ files' = RemoveAll(FS, installPath).f
                       /\ db' = SelectSeq(db, LAMBDA r : r # Row(id, version))
                       /\ ret' = Returned("uninstall", id, version, "nil")
                       /\ mon' = Note(id, version, "uninstall_ok",
                                      IF AnyInFlight THEN "none" ELSE "clean")
  /\ UNCHANGED <<hub, cron, goos, goarch, focus, served, procs, inst, st, resolve>>

\* The process names a pattern matches: the image name with or without its
\* extension (tasklist / taskkill "name*", pgrep / pkill on the name).
Matching(pattern) == {p \in procs : p.name = pattern}

Min(S) == CHOOSE x \in S : \A y \in S : x <= y

\* getProcessPID, lines 94-134: the first (oldest) matching process, or 0.
GetProcessPID(pattern) ==
  IF Matching(pattern) = {} THEN 0 ELSE Min({p.pid : p \in Matching(pattern)})

\* GetServiceStatus, lines 27-91.
GetServiceStatus(id, version) ==
  LET pkg == GetPortablePackageByID(id)
      installPath == InstallPathOf(pkg, version)
      pid == IF id = "nginx" THEN GetProcessPID("nginx")
             ELSE IF id \in {"mysql", "mariadb"}
                  THEN (IF GetProcessPID("mysqld") # 0 THEN GetProcessPID("mysqld")
                        ELSE GetProcessPID("mariadbd"))
             ELSE IF id = "redis" THEN GetProcessPID("redis-server")
             ELSE IF id = "php" THEN GetProcessPID("php-cgi")
             ELSE 0
      configPath == IF id = "nginx" THEN Join(installPath, <<"conf", "nginx.conf">>)
                    ELSE IF id \in {"mysql", "mariadb"} THEN Join(installPath, <<"my.ini">>)
                    ELSE IF id = "redis" THEN Join(installPath, <<"redis.conf">>)
                    ELSE IF id = "php" THEN Join(installPath, <<"php.ini">>)
                    ELSE IF pkg.ConfigFile # NoConfig
                         THEN Join(installPath, pkg.ConfigFile)
                    ELSE <<>>
      logPath == IF id = "nginx" THEN Join(installPath, <<"logs">>)
                 ELSE IF id \in {"mysql", "mariadb"} THEN Join(installPath, <<"data">>)
                 ELSE <<>>
      available == /\ id = "nodejs"
                   /\ Join(installPath, pkg.Executable[goos]) \in DOMAIN files \cup dirs
  IN IF pkg.ID = "" THEN [err |-> "package_not_found", status |-> NoStatus]
     ELSE IF ~Exists(FS, installPath) THEN [err |-> "not_installed", status |-> NoStatus]
     ELSE [err |-> "nil",
           status |-> [Running |-> (pid > 0 \/ available), PID |-> pid,
                       Port |-> IF Len(pkg.Ports) > 0 THEN pkg.Ports[1] ELSE 0,
                       InstallPath |-> installPath, ConfigPath |-> configPath,
                       LogPath |-> logPath]]

\* GetInstalledPortablePackages, lines 1608-1633: the directories right under
\* the install path of every catalog package.
GetInstalledPortablePackages ==
  UNION { { [id |-> PortableCatalog[i].ID, version |-> Last(d)] :
              d \in {q \in dirs :
                       Dir(q) = Join(GetBaseDir, PortableCatalog[i].InstallPath)} } :
          i \in DOMAIN PortableCatalog }

\* A call of GetServiceStatus.
StatusCall(id, version) ==
  /\ ops < MaxOps
  /\ ops' = ops + 1
  /\ ret' = [Returned("status", id, version, GetServiceStatus(id, version).err)
               EXCEPT !.status = GetServiceStatus(id, version).status,
                      !.seq = ops + 1]
  /\ UNCHANGED <<hub, cron, goos, goarch, focus, served, dirs, files, db, procs, inst, st, mon,
                 faults, resolve>>

(***************************************************************************)
(* Process supervisor (StartService, StopService).  A process is a record  *)
(* [pid, name, role, id, version, call]: name is the image name without    *)
(* extension, role is "init" or "daemon", call numbers the StartService    *)
(* call that spawned it.                                                   *)
(***************************************************************************)
IdleStart ==
  [pc |-> "idle", call |-> 0, id |-> "", version |-> "", err |-> "nil",
   installMissing |-> FALSE, catalogExecMissing |-> FALSE, checkedExecMissing |-> FALSE,
   dataFileMissing |-> FALSE, initRan |-> FALSE, initAtSpawn |-> FALSE,
   spawned |-> {}, created |-> FALSE, cmd |-> <<>>,
   restart |-> FALSE, stopErr |-> "nil", steps |-> <<>>, result |-> "nil"]

Max(S) == CHOOSE x \in S : \A y \in S : x >= y

NextPID == Max({p.pid : p \in procs} \cup {0}) + 1

Exe(name) == IF goos = "windows" THEN name \o ".exe" ELSE name

\* The executable StartService stats before it does anything, lines 149-157.
CheckedExec(pkg, installPath) ==
  IF pkg.ID = "php"
  THEN (IF goos = "windows" THEN Join(installPath, <<"php-cgi.exe">>)
        ELSE Join(installPath, <<"bin", "php-cgi">>))
  ELSE Join(installPath, pkg.Executable[goos])

\* The image name of the process exec.Command(path) starts.
ImageName(id, path) ==
  IF id \in {"mysql", "mariadb"} THEN "mysqld"
  ELSE IF id = "php" THEN "php-cgi"
  ELSE IF id = "nginx" THEN "nginx"
  ELSE IF id = "redis" THEN "redis-server"
  ELSE Last(path)

Process(pid, name, role, id, version, call) ==
  [pid |-> pid, name |-> name, role |-> role, id |-> id, version |-> version,
   call |-> call]

\* Mutant: the initialization is started and not waited for.
InitReturned_Async(call) == TRUE

\* initCmd.Run() returns, line 208: the initialization process of the call
\* has exited.
InitReturned(call) == ~\E p \in procs : p.role = "init" /\ p.call = call

\* Lines 173-222: what StartService does to the file system before it
\* spawns anything (errors of MkdirAll / WriteFile are ignored by the code).
PrepareStart(pkg, installPath, fs) ==
  IF pkg.ID \in {"mysql", "mariadb"}
  THEN LET dataDir == Join(installPath, <<"data">>)
           fs1 == MkdirAll(fs, dataDir)
           configFile == Join(installPath,
                              IF goos = "windows" THEN <<"my.ini">> ELSE <<"my.cnf">>)
           fs2 == IF ~Exists(fs1, configFile) /\ CreateOK(fs1, configFile)
                  THEN WriteFile(fs1, configFile, Data("StartService:mysqld"))
                  ELSE fs1
           missing == ~Exists(fs2, Join(dataDir, <<"ibdata1">>))
       IN [fs |-> IF missing THEN MkdirAll(RemoveAll(fs2, dataDir), dataDir) ELSE fs2,
           init |-> missing,
           cmd |-> Join(installPath, <<"bin", Exe("mysqld")>>)]
  ELSE IF pkg.ID = "redis"
  THEN LET configFile == Join(installPath, <<"redis.conf">>)
       IN [fs |-> IF ~Exists(fs, configFile) /\ CreateOK(fs, configFile)
                  THEN WriteFile(fs, configFile, Data("StartService:redis"))
                  ELSE fs,
           init |-> FALSE,
           cmd |-> CheckedExec(pkg, installPath)]
  ELSE [fs |-> fs, init |-> FALSE, cmd |-> CheckedExec(pkg, installPath)]

\* Mutant: the executable is not looked for before anything is done.
ExecutableFound_Unchecked(fs, path) == TRUE

\* os.Stat(execPath) finds the executable, line 159.
ExecutableFound(fs, path) == Exists(fs, path)

\* exec.Cmd.Start / Run can start the file at path.
Startable(fs, path) == path \in DOMAIN fs.f

\* Mutant: an error of the stop step is what RestartService returns.
RestartResult_StopError(stopErr, startErr) ==
  IF stopErr # "nil" THEN stopErr ELSE startErr

\* RestartService, lines 306-309: the result of StopService is dropped, the
\* result of StartService is returned.
RestartResult(stopErr, startErr) == startErr

StartReturn(call, e) ==
  [call EXCEPT !.pc = "returned", !.err = e,
               !.result = IF call.restart THEN RestartResult(call.stopErr, e) ELSE e]

\* The body of StartService, lines 137-244, up to its return or to the wait
\* for the initialization command; call is the record of the call.
StartBody(id, version, call) ==
  /\ LET pkg == GetPortablePackageByID(id)
         installPath == InstallPathOf(pkg, version)
     IN IF pkg.ID = ""
        THEN /\ st' = StartReturn(call, "package_not_found")
             /\ UNCHANGED <<dirs, files, procs, faults>>
        ELSE LET seen == [call EXCEPT
                            !.installMissing = ~Exists(FS, installPath),
                            !.catalogExecMissing =
                               \/ pkg.Executable[goos] = NoExec
                               \/ ~Exists(FS, Join(installPath, pkg.Executable[goos])),
                            !.checkedExecMissing =
                               \/ pkg.Executable[goos] = NoExec
                               \/ ~Exists(FS, CheckedExec(pkg, installPath))]
             IN IF pkg.Executable[goos] = NoExec
                THEN /\ st' = StartReturn(seen, "no_executable")
                     /\ UNCHANGED <<dirs, files, procs, faults>>
                ELSE IF ~ExecutableFound(FS, CheckedExec(pkg, installPath))
                THEN /\ st' = StartReturn(seen, "executable_not_found")
                     /\ UNCHANGED <<dirs, files, procs, faults>>
                ELSE LET plan == PrepareStart(pkg, installPath, FS)
                         name == ImageName(id, plan.cmd)
                         ready == [seen EXCEPT !.created = (plan.fs # FS),
                                               !.dataFileMissing = plan.init,
                                               !.cmd = plan.cmd]
                     IN /\ dirs' = plan.fs.d
                        /\ files' = plan.fs.f
                        /\ IF plan.init /\ Startable(plan.fs, plan.cmd)
                           THEN /\ procs' = procs \cup
                                     {Process(NextPID, name, "init", id, version, call.call)}
                                /\ st' = [ready EXCEPT !.pc = "init_wait", !.initRan = TRUE]
                                /\ UNCHANGED faults
                           ELSE \E sp \in Outcomes({"fail"}) :
                                  /\ Fault(sp)
                                  /\ IF sp = "ok" /\ Startable(plan.fs, plan.cmd)
                                     THEN /\ procs' = procs \cup
                                               {Process(NextPID, name, "daemon", id,
                                                        version, call.call)}
                                          /\ st' = StartReturn(
                                                     [ready EXCEPT !.spawned = {"daemon"}],
                                                     "nil")
                                     ELSE /\ st' = StartReturn(ready, "failed_to_start")
                                          /\ UNCHANGED procs
  /\ UNCHANGED <<hub, cron, goos, goarch, focus, served, db, inst, mon, resolve>>

\* A call of StartService.
StartService(id, version) ==
  /\ ops < MaxOps
  /\ st.pc \in {"idle", "returned"}
  /\ ops' = ops + 1
  /\ StartBody(id, version,
               [IdleStart EXCEPT !.call = ops + 1, !.id = id, !.version = version,
                                 !.steps = <<"start">>])
  /\ UNCHANGED ret

\* The initialization process exits; a successful one has written the
\* primary data file.
InitExit ==
  \E p \in {q \in procs : q.role = "init"} :
    \E out \in Outcomes({"fail"}) :
      LET dataDir == Join(InstallPathOf(GetPortablePackageByID(p.id), p.version),
                          <<"data">>)
          ibdata == Join(dataDir, <<"ibdata1">>)
          fs1 == IF out = "ok" /\ dataDir \in dirs /\ CreateOK(FS, ibdata)
                 THEN WriteFile(FS, ibdata, Data("ibdata1"))
                 ELSE FS
      IN /\ Fault(out)
         /\ procs' = procs \ {p}
         /\ dirs' = fs1.d
         /\ files' = fs1.f
         /\ st' = IF st.call = p.call /\ fs1 # FS THEN [st EXCEPT !.created = TRUE]
                  ELSE st
         /\ UNCHANGED <<hub, cron, goos, goarch, focus, served, db, inst, ret, ops, mon, resolve>>

\* Lines 211-243 after the wait: cmd.Start() of the daemon and the return.
StartDaemon ==
  /\ st.pc = "init_wait"
  /\ InitReturned(st.call)
  /\ \E sp \in Outcomes({"fail"}) :
       /\ Fault(sp)
       /\ IF sp = "ok" /\ Startable(FS, st.cmd)
          THEN /\ procs' = procs \cup
                    {Process(NextPID, ImageName(st.id, st.cmd), "daemon", st.id,
                             st.version, st.call)}
               /\ st' = StartReturn(
                          [st EXCEPT !.spawned = {"daemon"},
                                     !.initAtSpawn = \E p \in procs : p.role = "init"],
                          "nil")
          ELSE /\ st' = StartReturn(st, "failed_to_start")
               /\ UNCHANGED procs
  /\ UNCHANGED <<hub, cron, goos, goarch, focus, served, dirs, files, db, inst, ret, ops, mon,
                 resolve>>

\* A daemon exits on its own.
ProcessExit ==
  \E p \in {q \in procs : q.role = "daemon"} :
    /\ procs' = procs \ {p}
    /\ UNCHANGED <<hub, cron, goos, goarch, focus, served, dirs, files, db, inst, st, ret, ops,
                   faults, mon, resolve>>

\* killProcess, lines 312-323, run against the processes ps: taskkill /F
\* /IM name* and pkill -9 name end every matching process and exit non-zero
\* when none matches; out = "fail" is a run that could end no process
\* (access denied) and exits non-zero too.
KillProcess(ps, name, out) ==
  LET hit == {p \in ps : p.name = name}
  IN IF out = "fail" \/ hit = {}
     THEN [procs |-> ps, err |-> "exit_status"]
     ELSE [procs |-> ps \ hit, err |-> "nil"]

\* The process name StopService addresses and the client it runs first
\* (<<>> when it runs none), lines 255-302.
StopName(id) ==
  IF id = "nginx" THEN "nginx"
  ELSE IF id \in {"mysql", "mariadb"} THEN "mysqld"
  ELSE IF id = "redis" THEN "redis-server"
  ELSE IF id = "php" THEN "php-cgi"
  ELSE id

StopClient(pkg, installPath) ==
  IF pkg.ID = "nginx" THEN Join(installPath, pkg.Executable[goos])
  ELSE IF pkg.ID \in {"mysql", "mariadb"}
  THEN Join(installPath, <<"bin", Exe("mysqladmin")>>)
  ELSE IF pkg.ID = "redis"
  THEN (IF goos = "windows" THEN Join(installPath, <<"redis-cli.exe">>)
        ELSE Join(installPath, <<"src", "redis-cli">>))
  ELSE <<>>

\* The daemons a shutdown client run for (id, version) can reach: nginx is
\* addressed by its prefix path, the others by their default port.
Reachable(id, version) ==
  {p \in Matching(StopName(id)) :
     p.role = "daemon" /\ (id = "nginx" => (p.id = id /\ p.version = version))}

NoProcess == Process(0, "", "", "", "", 0)

\* Mutant: the forceful termination is issued after every shutdown command.
FallbackNeeded_Always(graceful) == TRUE

\* if err != nil { killProcess(...) }, lines 260-264, 273-277, 288-291.
FallbackNeeded(graceful) == graceful # "ok"

\* StopService, lines 247-303, as a function of the outcome cl of the
\* shutdown client, the outcome kl of killProcess and the daemon p the
\* client reaches: what it returns, the processes it leaves, the commands
\* it ran in order and the failures it met.
StopEffect(id, version, cl, kl, p) ==
  LET pkg == GetPortablePackageByID(id)
      installPath == InstallPathOf(pkg, version)
      none == [err |-> "nil", procs |-> procs, graceful |-> "none", killErr |-> "none",
               steps |-> <<>>, used |-> 0,
               matched |-> Cardinality(Matching(StopName(id)))]
      killed(name) == KillProcess(procs, name, kl)
      forced(name) ==
        [none EXCEPT !.err = killed(name).err, !.procs = killed(name).procs,
                     !.killErr = killed(name).err, !.steps = <<"kill">>,
                     !.used = IF kl = "fail" THEN 1 ELSE 0]
  IN IF pkg.ID = "" THEN [none EXCEPT !.err = "package_not_found", !.matched = 0]
     ELSE IF id \in {"nginx", "mysql", "mariadb", "redis"}
     THEN LET ok == /\ cl = "ok"
                    /\ Startable(FS, StopClient(pkg, installPath))
                    /\ p \in Reachable(id, version)
              graceful == IF ok THEN "ok" ELSE "failed"
              left == IF ~ok THEN procs
                      ELSE IF id = "nginx" THEN procs \ Reachable(id, version)
                      ELSE procs \ {p}
              k == KillProcess(left, StopName(id), kl)
              clUsed == IF cl = "fail" THEN 1 ELSE 0
          IN IF FallbackNeeded(graceful)
             THEN [none EXCEPT !.procs = k.procs, !.graceful = graceful,
                               !.killErr = k.err, !.steps = <<"graceful", "kill">>,
                               !.used = clUsed + IF kl = "fail" THEN 1 ELSE 0]
             ELSE [none EXCEPT !.procs = left, !.graceful = graceful,
                               !.steps = <<"graceful">>, !.used = clUsed]
     ELSE IF id = "php" THEN forced("php-cgi")
     ELSE IF id \in {"nodejs", "phpmyadmin", "adminer", "composer"} THEN none
     ELSE forced(id)

\* The outcomes and the reached daemon a StopService call can meet.
StopChoices(id, version) ==
  {c \in [cl : {"ok", "fail"}, kl : {"ok", "fail"},
          p : IF Reachable(id, version) = {} THEN {NoProcess}
              ELSE Reachable(id, version)] :
     /\ (id \notin {"nginx", "mysql", "mariadb", "redis"} => c.cl = "ok")
     /\ faults + StopEffect(id, version, c.cl, c.kl, c.p).used <= MaxFaults
     /\ (c.kl = "fail" => StopEffect(id, version, c.cl, c.kl, c.p).used >=
                            1 + IF c.cl = "fail" THEN 1 ELSE 0)}

StopReturned(id, version, r) ==
  [Returned("stop", id, version, r.err)
     EXCEPT !.matched = r.matched, !.graceful = r.graceful, !.killErr = r.killErr,
            !.steps = r.steps, !.seq = ops + 1]

\* A call of StopService.
StopService(id, version) ==
  /\ ops < MaxOps
  /\ ops' = ops + 1
  /\ \E c \in StopChoices(id, version) :
       LET r == StopEffect(id, version, c.cl, c.kl, c.p)
       IN /\ procs' = r.procs
          /\ faults' = faults + r.used
          /\ ret' = StopReturned(id, version, r)
  /\ UNCHANGED <<hub, cron, goos, goarch, focus, served, dirs, files, db, inst, st, mon, resolve>>

\* RestartService, line 307: the stop step; its result is not looked at.
RestartStop(id, version) ==
  /\ ops < MaxOps
  /\ st.pc \in {"idle", "returned"}
  /\ ops' = ops + 1
  /\ \E c \in StopChoices(id, version) :
       LET r == StopEffect(id, version, c.cl, c.kl, c.p)
       IN /\ procs' = r.procs
          /\ faults' = faults + r.used
          /\ ret' = StopReturned(id, version, r)
          /\ st' = [IdleStart EXCEPT !.pc = "restart_stopped", !.call = ops + 1,
                                     !.id = id, !.version = version, !.restart = TRUE,
                                     !.stopErr = r.err, !.steps = <<"stop">>]
  /\ UNCHANGED <<hub, cron, goos, goarch, focus, served, dirs, files, db, inst, mon, resolve>>

\* RestartService, line 308: the start step.
RestartStart ==
  /\ st.pc = "restart_stopped"
  /\ StartBody(st.id, st.version, [st EXCEPT !.steps = Append(@, "start")])
  /\ UNCHANGED <<ret, ops>>

(***************************************************************************)
(* Configuration files (GetConfig, SaveConfig).                            *)
(***************************************************************************)
\* The switch of GetConfig and SaveConfig, lines 334-354 and 375-395: the
\* path of the package's config file, <<>> when it has none.
ConfigPathOf(pkg, installPath) ==
  IF pkg.ID = "nginx" THEN Join(installPath, <<"conf", "nginx.conf">>)
  ELSE IF pkg.ID \in {"mysql", "mariadb"}
  THEN Join(installPath, IF goos = "windows" THEN <<"my.ini">> ELSE <<"my.cnf">>)
  ELSE IF pkg.ID = "redis" THEN Join(installPath, <<"redis.conf">>)
  ELSE IF pkg.ID = "php" THEN Join(installPath, <<"php.ini">>)
  ELSE IF pkg.ConfigFile # NoConfig THEN Join(installPath, pkg.ConfigFile)
  ELSE <<>>

\* getDefaultConfig, lines 443-547.
GetDefaultConfig(id) ==
  IF id = "nginx" THEN Data("getDefaultConfig:nginx")
  ELSE IF id \in {"mysql", "mariadb"} THEN Data("getDefaultConfig:mysqld")
  ELSE IF id = "redis" THEN Data("getDefaultConfig:redis")
  ELSE IF id = "php" THEN Data("getDefaultConfig:php")
  ELSE Data("")

NoConfigRead == [path |-> <<>>, content |-> Partial, err |-> "nil", fs |-> FS]

\* Mutant: a read that finds no file writes the default template.
GetConfig_WriteDefault(id, version) ==
  LET pkg == GetPortablePackageByID(id)
      configPath == ConfigPathOf(pkg, InstallPathOf(pkg, version))
  IN IF pkg.ID = "" THEN [NoConfigRead EXCEPT !.err = "package_not_found"]
     ELSE IF configPath = <<>> THEN [NoConfigRead EXCEPT !.err = "no_config_file"]
     ELSE IF configPath \in DOMAIN files
     THEN [NoConfigRead EXCEPT !.path = configPath, !.content = files[configPath]]
     ELSE [NoConfigRead EXCEPT
             !.path = configPath, !.content = GetDefaultConfig(id),
             !.fs = IF CreateOK(FS, configPath)
                    THEN WriteFile(FS, configPath, GetDefaultConfig(id)) ELSE FS]

\* GetConfig, lines 326-364: the path, the content, the error and the file
\* system it leaves.
GetConfig(id, version) ==
  LET pkg == GetPortablePackageByID(id)
      configPath == ConfigPathOf(pkg, InstallPathOf(pkg, version))
  IN IF pkg.ID = "" THEN [NoConfigRead EXCEPT !.err = "package_not_found"]
     ELSE IF configPath = <<>> THEN [NoConfigRead EXCEPT !.err = "no_config_file"]
     ELSE IF configPath \in DOMAIN files
     THEN [NoConfigRead EXCEPT !.path = configPath, !.content = files[configPath]]
     ELSE [NoConfigRead EXCEPT !.path = configPath, !.content = GetDefaultConfig(id)]

\* A call of GetConfig.
GetConfigCall(id, version) ==
  /\ ops < MaxOps
  /\ ops' = ops + 1
  /\ LET r == GetConfig(id, version)
     IN /\ dirs' = r.fs.d
        /\ files' = r.fs.f
        /\ ret' = [Returned("get_config", id, version, r.err)
                     EXCEPT !.path = r.path, !.content = r.content,
                            !.wrote = (r.fs # FS), !.seq = ops + 1]
  /\ UNCHANGED <<hub, cron, goos, goarch, focus, served, db, procs, inst, st, mon, faults,
                 resolve>>

\* The content a caller of SaveConfig hands over.
UserConfig == Data("SaveConfig:content")

\* SaveConfig, lines 367-401.
SaveConfig(id, version) ==
  /\ ops < MaxOps
  /\ ops' = ops + 1
  /\ LET pkg == GetPortablePackageByID(id)
         configPath == IF pkg.ID = "" THEN <<>>
                       ELSE ConfigPathOf(pkg, InstallPathOf(pkg, version))
         done(e) == [Returned("save_config", id, version, e)
                       EXCEPT !.path = configPath, !.seq = ops + 1]
     IN IF pkg.ID = ""
        THEN /\ ret' = done("package_not_found")
             /\ UNCHANGED <<dirs, files, faults>>
        ELSE IF configPath = <<>>
        THEN /\ ret' = done("no_config_file")
             /\ UNCHANGED <<dirs, files, faults>>
        ELSE \E io \in Outcomes({"fail"}) :
               LET fs1 == MkdirAll(FS, Dir(configPath))
               IN /\ Fault(io)
                  /\ dirs' = fs1.d
                  /\ IF io = "ok" /\ CreateOK(fs1, configPath)
                     THEN /\ files' = WriteFile(fs1, configPath, UserConfig).f
                          /\ ret' = [done("nil") EXCEPT !.content = UserConfig,
                                                          !.wrote = TRUE]
                     ELSE /\ files' = files
                          /\ ret' = done("write")
  /\ UNCHANGED <<hub, cron, goos, goarch, focus, served, db, procs, inst, st, mon, resolve>>

(***************************************************************************)
(* The archives the download locations of the catalog serve: the package's *)
(* executable and one more file, wrapped in a "name-version" directory or  *)
(* not.  A single-file package (.phar, .php) serves no entries.            *)
(***************************************************************************)
AuxFile(pkg, os) ==
  IF pkg.ID = "php"
  THEN (IF os = "windows" THEN <<"php-cgi.exe">> ELSE <<"bin", "php-cgi">>)
  ELSE IF pkg.ID = "mysql"
  THEN (IF os = "windows" THEN <<"bin", "mysqladmin.exe">> ELSE <<"bin", "mysqladmin">>)
  ELSE IF pkg.ID = "mariadb"
  THEN (IF os = "windows" THEN <<"bin", "mysqld.exe">> ELSE <<"bin", "mysqld">>)
  ELSE IF pkg.ID = "redis"
  THEN (IF os = "windows" THEN <<"redis-cli.exe">> ELSE <<"src", "redis-cli">>)
  ELSE IF pkg.ID = "nginx" THEN <<"conf", "nginx.conf">>
  ELSE <<"README">>

MainFile(pkg, os) ==
  IF pkg.Executable[os] = NoExec THEN <<"index.php">> ELSE pkg.Executable[os]

SampleArchives(pkg, version, os) ==
  LET root == pkg.ID \o "-" \o version
      flat == << Entry(AuxFile(pkg, os), "reg", Last(AuxFile(pkg, os))),
                 Entry(MainFile(pkg, os), "reg", Last(MainFile(pkg, os))) >>
      wrapped == << Entry(<<root, "">>, "dir", "") >> \o
                 [i \in 1..Len(flat) |-> [flat[i] EXCEPT !.name = <<root>> \o @]]
  IN {flat, wrapped}

FocusPath == InstallPathOf(GetPortablePackageByID(focus.id), focus.version)

RECURSIVE ExtractAll(_, _, _, _, _)
\* extractArchive run over `entries` without an I/O error.
ExtractAll(ext, scan, entries, dest, fs) ==
  IF entries = <<>> THEN fs
  ELSE ExtractAll(ext, scan, Tail(entries), dest,
                  ExtractEntryStep(ext, scan, Head(entries), dest, fs, "ok").fs)

\* The file system an install of the focus instance into an absent directory
\* leaves: stopped by an error after extracting n entries, or complete.
InstallTree(n, complete) ==
  LET pkg == GetPortablePackageByID(focus.id)
      url == GetDownloadURL(pkg, focus.version, goos, goarch).url
      src == Join(TempDir, <<url.base>>)
      fs0 == [d |-> Prefixes(FocusPath) \cup Prefixes(TempDir),
              f |-> (src :> Body(url.base, served, MaxChunks))]
      fs1 == IF url.ext \in SingleFileFormats
             THEN (IF complete
                   THEN CopyFile(fs0, src, Join(FocusPath, <<url.base>>), "ok").fs
                   ELSE fs0)
             ELSE ExtractAll(url.ext,
                             IF url.ext \in ZipFormats THEN ZipScan(served, 1, "")
                             ELSE NoScan,
                             SubSeq(served, 1, n), FocusPath, fs0)
      fs2 == IF pkg.ConfigFile # NoConfig THEN CreateDefaultConfig(fs1, pkg, FocusPath)
             ELSE fs1
  IN IF complete THEN [fs2 EXCEPT !.f = Drop(@, {src})] ELSE fs1

NoResolve == [pkg |-> NoPackage, version |-> "", out |-> [url |-> NoURL, err |-> ""],
              pc |-> "idle"]

NoHistory == [lastOp |-> "none", prevOp |-> "none", twice |-> "clean"]

NoFiles == [p \in {} |-> Partial]

\* NewHub, lines 787-794, before any goroutine runs.
IdleHub == [pc |-> "off"]

\* The cron service before Init.
IdleCron == [pc |-> "off"]

(***************************************************************************)
(* The orchestrator: one caller installs, uninstalls and probes.           *)
(***************************************************************************)
Init ==
  /\ \E pf \in Platforms : goos = pf.os /\ goarch = pf.arch
  /\ focus \in Instances
  /\ served \in SampleArchives(GetPortablePackageByID(focus.id), focus.version, goos)
  /\ dirs = Prefixes(<<"opt", "netpanel">>)
  /\ files = NoFiles
  /\ db = <<>>
  /\ procs = {}
  /\ inst = [c \in CallerIDs |-> IdleCall]
  /\ st = IdleStart
  /\ ret = NoRet
  /\ ops = 0
  /\ faults = 0
  /\ mon = NoHistory
  /\ resolve = NoResolve
  /\ hub = IdleHub
  /\ cron = IdleCron

Next ==
  \/ \E i \in Inputs : InstallBegin("c1", i.id, i.version)
  \/ DownloadStart("c1")
  \/ DownloadChunk("c1")
  \/ ExtractOpen("c1")
  \/ ExtractEntry("c1")
  \/ InstallFinish("c1")
  \/ \E i \in Inputs : UninstallPortablePackage(i.id, i.version)
  \/ \E i \in Inputs : StatusCall(i.id, i.version)

Spec == Init /\ [][Next]_vars

(***************************************************************************)
(* Two HTTP requests installing the focus instance at the same time: the   *)
(* handler runs InstallPortablePackage on the goroutine of each request,   *)
(* and no lock is taken.                                                   *)
(***************************************************************************)
ConcurrentInstances ==
  {[id |-> "nginx", version |-> "1.24.0"], [id |-> "composer", version |-> "2.6.6"]}

\* The platforms that differ in os.Remove of a file held open.
ConcurrentPlatforms == {"windows", "linux"}

\* One archive package and one single-file package, absent at the start.
InitConcurrent ==
  /\ Init
  /\ focus \in ConcurrentInstances
  /\ goos \in ConcurrentPlatforms

NextConcurrent ==
  \E c \in CallerIDs :
    \/ InstallBegin(c, focus.id, focus.version)
    \/ DownloadStart(c)
    \/ DownloadChunk(c)
    \/ ExtractOpen(c)
    \/ ExtractEntry(c)
    \/ InstallFinish(c)

SpecConcurrent == InitConcurrent /\ [][NextConcurrent]_vars

(***************************************************************************)
(* The resolver on its own: GetDownloadURL applied to catalog packages and *)
(* to synthetic packages of up to MaxVersions versions.                    *)
(***************************************************************************)
SyntheticKeys == {"all", "windows/amd64", "linux/amd64"}

SyntheticURL(key) == URL("synthetic-" \o key, ".zip")

SyntheticVersions ==
  { [Version |-> v, Downloads |-> [k \in K |-> SyntheticURL(k)]] :
      v \in {"1.0", "2.0"}, K \in SUBSET SyntheticKeys }

SeqsUpTo(S, n) == UNION { [1..k -> S] : k \in 0..n }

SyntheticPackages ==
  { [ID |-> "synthetic", Versions |-> vs] : vs \in SeqsUpTo(SyntheticVersions, MaxVersions) }

CatalogPackages == {PortableCatalog[i] : i \in DOMAIN PortableCatalog}

Quiet ==
  /\ served = <<>>
  /\ dirs = {}
  /\ files = NoFiles
  /\ db = <<>>
  /\ procs = {}
  /\ inst = [c \in CallerIDs |-> IdleCall]
  /\ st = IdleStart
  /\ ret = NoRet
  /\ ops = 0
  /\ faults = 0
  /\ mon = NoHistory

InitResolve ==
  /\ \E pf \in Platforms : goos = pf.os /\ goarch = pf.arch
  /\ focus = [id |-> "", version |-> ""]
  /\ Quiet
  /\ hub = IdleHub
  /\ cron = IdleCron
  /\ \E pkg \in SyntheticPackages \cup CatalogPackages :
       \E v \in VersionsOf(pkg) \cup {"1.0", "9.9"} :
         resolve = [NoResolve EXCEPT !.pkg = pkg, !.version = v]

\* A call of GetDownloadURL.
ResolveCall ==
  /\ resolve.pc = "idle"
  /\ resolve' = [resolve EXCEPT
                   !.out = GetDownloadURL(resolve.pkg, resolve.version, goos, goarch),
                   !.pc = "done"]
  /\ UNCHANGED <<hub, cron, goos, goarch, focus, served, dirs, files, db, procs, inst, st, ret, ops,
                 faults, mon>>

NextResolve == ResolveCall

SpecResolve == InitResolve /\ [][NextResolve]_vars

(***************************************************************************)
(* The extractor on its own: extractArchive applied to a scratch file of   *)
(* every suffix holding up to MaxEntries entries.                          *)
(***************************************************************************)
EntryPool ==
  { Entry(<<"pkg", "">>, "dir", ""),
    Entry(<<"pkg">>, "dir", ""),
    Entry(<<"pkg", "bin", "">>, "dir", ""),
    Entry(<<"pkg", "bin", "x">>, "reg", "x"),
    Entry(<<"pkg", "pkg", "y">>, "reg", "y"),
    Entry(<<"other", "z">>, "reg", "z"),
    Entry(<<"top">>, "reg", "top"),
    Entry(<<"pkg", "..", "..", "evil">>, "reg", "evil") }

Suffixes == ArchiveFormats \cup SingleFileFormats \cup {".7z"}

ExtractDest == InstallPathOf(GetPortablePackageByID("nginx"), "1.25.3")

ExtractSrc == Join(TempDir, <<"archive">>)

ExtractDirs == Prefixes(ExtractDest) \cup Prefixes(TempDir)

InitExtract ==
  /\ goos = "linux" /\ goarch = "amd64"
  /\ focus = [id |-> "nginx", version |-> "1.25.3"]
  /\ served \in SeqsUpTo(EntryPool, MaxEntries)
  /\ dirs = ExtractDirs
  /\ files = (ExtractSrc :> Body("archive", served, MaxChunks))
  /\ db = <<>>
  /\ procs = {}
  /\ \E ext \in Suffixes :
       inst = [c \in CallerIDs |->
                 IF c = "c1"
                 THEN [IdleCall EXCEPT
                         !.pc = "extract_open", !.id = focus.id, !.version = focus.version,
                         !.installPath = ExtractDest, !.tempFile = ExtractSrc,
                         !.tag = "archive", !.ext = ext, !.nilResult = FALSE,
                         !.progress = ExtractingSnapshot(
                            [NoProgress EXCEPT !.PackageID = focus.id,
                                               !.Version = focus.version,
                                               !.InstallPath = ExtractDest])]
                 ELSE IdleCall]
  /\ st = IdleStart
  /\ ret = NoRet
  /\ ops = 0
  /\ faults = 0
  /\ mon = [NoHistory EXCEPT !.twice = "none"]
  /\ resolve = NoResolve
  /\ hub = IdleHub
  /\ cron = IdleCron

NextExtract ==
  \/ ExtractOpen("c1")
  \/ ExtractEntry("c1")

SpecExtract == InitExtract /\ [][NextExtract]_vars

(***************************************************************************)
(* The supervisor on its own: StartService, StopService and the status     *)
(* probe on an install directory in one of the states the orchestrator     *)
(* leaves (absent, stopped by an error partway, complete).                 *)
(***************************************************************************)
InstallTrees ==
  IF GetDownloadURL(GetPortablePackageByID(focus.id), focus.version, goos, goarch).err
       # "nil"
  THEN {[d |-> Prefixes(<<"opt", "netpanel">>), f |-> NoFiles]}
  ELSE {[d |-> Prefixes(<<"opt", "netpanel">>), f |-> NoFiles],
        InstallTree(Len(served), TRUE)}
       \cup {InstallTree(n, FALSE) : n \in 0..Len(served)}

InitSupervisor ==
  /\ \E pf \in Platforms : goos = pf.os /\ goarch = pf.arch
  /\ focus \in Instances
  /\ served \in SampleArchives(GetPortablePackageByID(focus.id), focus.version, goos)
  /\ \E fs \in InstallTrees : dirs = fs.d /\ files = fs.f
  /\ db = <<>>
  /\ procs = {}
  /\ inst = [c \in CallerIDs |-> IdleCall]
  /\ st = IdleStart
  /\ ret = NoRet
  /\ ops = 0
  /\ faults = 0
  /\ mon = NoHistory
  /\ resolve = NoResolve
  /\ hub = IdleHub
  /\ cron = IdleCron

NextSupervisor ==
  \/ \E i \in Inputs : StartService(i.id, i.version)
  \/ \E i \in Inputs : RestartStop(i.id, i.version)
  \/ RestartStart
  \/ InitExit
  \/ StartDaemon
  \/ ProcessExit
  \/ \E i \in Inputs : StopService(i.id, i.version)
  \/ \E i \in Inputs : StatusCall(i.id, i.version)

SpecSupervisor == InitSupervisor /\ [][NextSupervisor]_vars

(***************************************************************************)
(* The configuration editor: reads and writes of the config file of an     *)
(* installed package, next to the starts that may create it.               *)
(***************************************************************************)
NextConfig ==
  \/ \E i \in Inputs : GetConfigCall(i.id, i.version)
  \/ \E i \in Inputs : SaveConfig(i.id, i.version)
  \/ \E i \in Inputs : StartService(i.id, i.version)
  \/ InitExit
  \/ StartDaemon
  \/ ProcessExit

SpecConfig == InitSupervisor /\ [][NextConfig]_vars

(***************************************************************************)
(* Two instances side by side: next to the focus instance a daemon of      *)
(* another instance is running, started by an earlier StartService call    *)
(* (another version of the package, or mysql next to mariadb).             *)
(***************************************************************************)
DaemonPackages == {"nginx", "mysql", "mariadb", "redis", "php"}

\* The instances whose daemon has the image name of the focus package.
SiblingInstances ==
  {i \in Instances : /\ i # focus
                     /\ i.id \in DaemonPackages
                     /\ StopName(i.id) = StopName(focus.id)}

InitInstances ==
  /\ \E pf \in Platforms : goos = pf.os /\ goarch = pf.arch
  /\ focus \in {i \in Instances : i.id \in DaemonPackages}
  /\ served \in SampleArchives(GetPortablePackageByID(focus.id), focus.version, goos)
  /\ \E fs \in InstallTrees, sib \in SiblingInstances :
       /\ dirs = fs.d \cup Prefixes(InstallPathOf(GetPortablePackageByID(sib.id),
                                                  sib.version))
       /\ files = fs.f
       /\ procs = {Process(1, StopName(sib.id), "daemon", sib.id, sib.version, 0)}
  /\ db = <<>>
  /\ inst = [c \in CallerIDs |-> IdleCall]
  /\ st = IdleStart
  /\ ret = NoRet
  /\ ops = 0
  /\ faults = 0
  /\ mon = NoHistory
  /\ resolve = NoResolve
  /\ hub = IdleHub
  /\ cron = IdleCron

NextInstances ==
  \/ \E i \in Inputs : StartService(i.id, i.version)
  \/ InitExit
  \/ StartDaemon
  \/ ProcessExit
  \/ \E i \in Inputs : StopService(i.id, i.version)

SpecInstances == InitInstances /\ [][NextInstances]_vars

(***************************************************************************)
(* The websocket hub: the Run goroutine, the broadcastStats goroutine and  *)
(* one HandleWebSocket goroutine per connection.  The three channels are   *)
(* unbuffered (NewHub), so a send completes only in a step taken together  *)
(* with the receive of another goroutine; Run holds the only receives.     *)
(* h.mutex is left out: it is taken by Run and, for reading, by            *)
(* broadcastStats, and no goroutine waits while holding it for writing.    *)
(***************************************************************************)
MaxConns == 3

Conns == 1..MaxConns

\* The app store is at rest while the hub runs.
AppStoreQuiet ==
  /\ goos = "linux"
  /\ goarch = "amd64"
  /\ focus = [id |-> "", version |-> ""]
  /\ Quiet
  /\ resolve = NoResolve

appStoreVars == <<goos, goarch, focus, served, dirs, files, db, procs, inst, st,
                  ret, ops, faults, mon, resolve>>

\* A connection the websocket middleware has accepted: its handler goroutine
\* position, whether the peer is still there, whether Close was called on it.
NewConn == [pc |-> "accepted", alive |-> TRUE, closed |-> FALSE]

\* NewHub and InitHub: no clients, Run at its select, broadcastStats waiting
\* for a tick.
NewHub == [pc |-> "select", clients |-> {}, todo |-> {}, client |-> 0,
           stats |-> "tick", conn |-> [c \in Conns |-> NewConn]]

InitHub ==
  /\ AppStoreQuiet
  /\ hub = NewHub
  /\ cron = IdleCron

\* HandleWebSocket up to the send of Register: the handler goroutine of
\* connection c stands at h.register <- conn.
HandleWebSocket(c) ==
  /\ hub.conn[c].pc = "accepted"
  /\ hub' = [hub EXCEPT !.conn[c].pc = "register"]
  /\ UNCHANGED <<cron, appStoreVars>>

\* Register meets case client := <-h.register of Run.
Register(c) ==
  /\ hub.pc = "select"
  /\ hub.conn[c].pc = "register"
  /\ hub' = [hub EXCEPT !.clients = @ \cup {c}, !.conn[c].pc = "read"]
  /\ UNCHANGED <<cron, appStoreVars>>

\* The peer of connection c goes away.
PeerClose(c) ==
  /\ hub.conn[c].pc \in {"register", "read"}
  /\ hub.conn[c].alive
  /\ hub' = [hub EXCEPT !.conn[c].alive = FALSE]
  /\ UNCHANGED <<cron, appStoreVars>>

\* ReadMessage returns an error on a connection whose peer is gone or that
\* was closed: the read loop breaks and the deferred Unregister stands at
\* h.unregister <- conn.
ReadMessage(c) ==
  /\ hub.conn[c].pc = "read"
  /\ ~hub.conn[c].alive \/ hub.conn[c].closed
  /\ hub' = [hub EXCEPT !.conn[c].pc = "unregister"]
  /\ UNCHANGED <<cron, appStoreVars>>

\* Unregister meets case client := <-h.unregister of Run.
Unregister(c) ==
  /\ hub.pc = "select"
  /\ hub.conn[c].pc = "unregister"
  /\ hub' = [hub EXCEPT
               !.clients = @ \ {c},
               !.conn[c].closed = @ \/ c \in hub.clients,
               !.conn[c].pc = "done"]
  /\ UNCHANGED <<cron, appStoreVars>>

\* One tick of broadcastStats with at least one client: the goroutine stands
\* at h.broadcast <- data.  A tick with no client changes nothing.
broadcastStats ==
  /\ hub.stats = "tick"
  /\ hub.clients # {}
  /\ hub' = [hub EXCEPT !.stats = "send"]
  /\ UNCHANGED <<cron, appStoreVars>>

\* The send of broadcastStats meets case message := <-h.broadcast of Run,
\* which starts to range over the clients.
Broadcast ==
  /\ hub.pc = "select"
  /\ hub.stats = "send"
  /\ hub' = [hub EXCEPT !.pc = "range", !.todo = hub.clients, !.stats = "tick"]
  /\ UNCHANGED <<cron, appStoreVars>>

\* The outcomes of WriteMessage on connection c: it succeeds on a live
\* connection; once the peer is gone it fails, at once or on a later write.
WriteOutcomes(c) ==
  IF hub.conn[c].alive /\ ~hub.conn[c].closed THEN {"nil"} ELSE {"nil", "error"}

\* One turn of the range loop of Run.  On a write error Run goes to the send
\* h.unregister <- client.
WriteMessage(c) ==
  /\ hub.pc = "range"
  /\ c \in hub.todo
  /\ \E err \in WriteOutcomes(c) :
       hub' = [hub EXCEPT
                 !.todo = @ \ {c},
                 !.pc = IF err = "nil" THEN "range" ELSE "send_unregister",
                 !.client = IF err = "nil" THEN 0 ELSE c]
  /\ UNCHANGED <<cron, appStoreVars>>

\* The range loop has visited every client: Run is back at its select.
RangeDone ==
  /\ hub.pc = "range"
  /\ hub.todo = {}
  /\ hub' = [hub EXCEPT !.pc = "select"]
  /\ UNCHANGED <<cron, appStoreVars>>

\* The steps of the Run goroutine.  At h.unregister <- client it has none:
\* the only receive on h.unregister is the select of Run itself.
Run ==
  \/ \E c \in Conns : Register(c) \/ Unregister(c) \/ WriteMessage(c)
  \/ Broadcast
  \/ RangeDone

NextHub ==
  \/ \E c \in Conns : HandleWebSocket(c) \/ PeerClose(c) \/ ReadMessage(c)
  \/ broadcastStats
  \/ Run

SpecHub == InitHub /\ [][NextHub]_vars

\* The Go scheduler runs every goroutine that can take a step: Run, the
\* ticker goroutine and each connection handler.
SpecHubFair ==
  /\ SpecHub
  /\ WF_vars(Run)
  /\ WF_vars(broadcastStats)
  /\ \A c \in Conns : WF_vars(HandleWebSocket(c) \/ ReadMessage(c))

(***************************************************************************)
(* The cron service: AddJob, ToggleJob and RemoveJob called by concurrent  *)
(* request handlers.  Each action is one stretch of a call in which no     *)
(* other call can interfere: a database statement, a section under mutex,  *)
(* or the call of cronScheduler.AddFunc, which addJobToScheduler makes     *)
(* before it takes mutex.                                                  *)
(***************************************************************************)
MaxJobs == 2

MaxCalls == 3

JobIDs == 1..MaxJobs

CronCallers == {"h1", "h2"}

\* A schedule either parses (AddFunc returns an entry) or does not.
Schedules == {"@hourly", "bad"}

NoJob == [Enabled |-> FALSE, Schedule |-> ""]

NoCronCall == [pc |-> "idle", op |-> "none", id |-> 0, enabled |-> FALSE,
               schedule |-> "", entryID |-> 0]

\* Init, lines 23-40, on a table holding the rows `rows`: every enabled row
\* goes through addJobToScheduler, with no other goroutine around.
CronAfterInit(rows) ==
  LET live == {id \in JobIDs : rows[id].Enabled /\ rows[id].Schedule = "@hourly"}
      entryOf(id) == Cardinality({j \in live : j <= id})
  IN [pc |-> "on",
      jobs |-> rows,
      nextID |-> 1 + Cardinality({id \in JobIDs : rows[id] # NoJob}),
      cronScheduler |-> {[entryID |-> entryOf(id), job |-> id] : id \in live},
      next |-> 1 + Cardinality(live),
      jobMap |-> [id \in JobIDs |-> IF id \in live THEN entryOf(id) ELSE 0],
      call |-> [c \in CronCallers |-> NoCronCall],
      calls |-> 0]

\* The table at startup: empty, or holding job 1.
InitCron ==
  /\ AppStoreQuiet
  /\ hub = IdleHub
  /\ \E rows \in [JobIDs -> {NoJob} \cup [Enabled : BOOLEAN, Schedule : Schedules]] :
       /\ \A id \in JobIDs : id > 1 => rows[id] = NoJob
       /\ cron = CronAfterInit(rows)

\* The section under mutex of RemoveJob (lines 61-67) and of ToggleJob
\* (lines 84-90): the entry jobMap holds for the job is removed from the
\* scheduler and from jobMap.
Unschedule(cr, id) ==
  IF cr.jobMap[id] # 0
    THEN [cr EXCEPT
            !.cronScheduler = {e \in @ : e.entryID # cr.jobMap[id]},
            !.jobMap[id] = 0]
    ELSE cr

\* AddJob up to the call of addJobToScheduler: the row is created, enabled.
AddJob(c) ==
  /\ cron.call[c].pc = "idle"
  /\ cron.calls < MaxCalls
  /\ cron.nextID <= MaxJobs
  /\ \E schedule \in Schedules :
       cron' = [cron EXCEPT
                  !.jobs[cron.nextID] = [Enabled |-> TRUE, Schedule |-> schedule],
                  !.nextID = @ + 1,
                  !.calls = @ + 1,
                  !.call[c] = [NoCronCall EXCEPT
                                 !.pc = "AddFunc", !.op = "AddJob",
                                 !.id = cron.nextID, !.enabled = TRUE,
                                 !.schedule = schedule]]
  /\ UNCHANGED <<hub, appStoreVars>>

\* ToggleJob, lines 74-82: the row is read and saved with the new Enabled;
\* a missing row ends the call with the error.  The two statements are one
\* step: neither touches the scheduler or jobMap.
ToggleJob(c) ==
  /\ cron.call[c].pc = "idle"
  /\ cron.calls < MaxCalls
  /\ \E id \in JobIDs, enabled \in BOOLEAN :
       IF cron.jobs[id] = NoJob
         THEN cron' = [cron EXCEPT !.calls = @ + 1]
         ELSE cron' = [cron EXCEPT
                         !.jobs[id].Enabled = enabled,
                         !.calls = @ + 1,
                         !.call[c] = [NoCronCall EXCEPT
                                        !.pc = "Unschedule", !.op = "ToggleJob",
                                        !.id = id, !.enabled = enabled,
                                        !.schedule = cron.jobs[id].Schedule]]
  /\ UNCHANGED <<hub, appStoreVars>>

\* ToggleJob, lines 84-96: the section under mutex, then addJobToScheduler
\* when the job was enabled, else the return.
ToggleJob_Unschedule(c) ==
  /\ cron.call[c].pc = "Unschedule"
  /\ cron' = [Unschedule(cron, cron.call[c].id) EXCEPT
                !.call[c] = IF cron.call[c].enabled
                              THEN [cron.call[c] EXCEPT !.pc = "AddFunc"]
                              ELSE NoCronCall]
  /\ UNCHANGED <<hub, appStoreVars>>

\* addJobToScheduler, lines 107-114: AddFunc gives the job a new entry in the
\* scheduler; mutex is not held.  A schedule that does not parse ends the
\* call.
addJobToScheduler_AddFunc(c) ==
  /\ cron.call[c].pc = "AddFunc"
  /\ IF cron.call[c].schedule = "@hourly"
       THEN cron' = [cron EXCEPT
                       !.cronScheduler = @ \cup {[entryID |-> cron.next,
                                                  job |-> cron.call[c].id]},
                       !.next = @ + 1,
                       !.call[c].entryID = cron.next,
                       !.call[c].pc = "jobMap"]
       ELSE cron' = [cron EXCEPT !.call[c] = NoCronCall]
  /\ UNCHANGED <<hub, appStoreVars>>

\* addJobToScheduler, lines 116-118: under mutex, jobMap[job.ID] = entryID,
\* over whatever entry jobMap held for the job.
addJobToScheduler(c) ==
  /\ cron.call[c].pc = "jobMap"
  /\ cron' = [cron EXCEPT
                !.jobMap[cron.call[c].id] = cron.call[c].entryID,
                !.call[c] = NoCronCall]
  /\ UNCHANGED <<hub, appStoreVars>>

\* RemoveJob, lines 61-67: the section under mutex.
RemoveJob(c) ==
  /\ cron.call[c].pc = "idle"
  /\ cron.calls < MaxCalls
  /\ \E id \in JobIDs :
       cron' = [Unschedule(cron, id) EXCEPT
                  !.calls = @ + 1,
                  !.call[c] = [NoCronCall EXCEPT
                                 !.pc = "Delete", !.op = "RemoveJob", !.id = id]]
  /\ UNCHANGED <<hub, appStoreVars>>

\* RemoveJob, line 69: the row is deleted.
RemoveJob_Delete(c) ==
  /\ cron.call[c].pc = "Delete"
  /\ cron' = [cron EXCEPT
                !.jobs[cron.call[c].id] = NoJob,
                !.call[c] = NoCronCall]
  /\ UNCHANGED <<hub, appStoreVars>>

NextCron ==
  \E c \in CronCallers :
    \/ AddJob(c)
    \/ ToggleJob(c)
    \/ ToggleJob_Unschedule(c)
    \/ addJobToScheduler_AddFunc(c)
    \/ addJobToScheduler(c)
    \/ RemoveJob(c)
    \/ RemoveJob_Delete(c)

SpecCron == InitCron /\ [][NextCron]_vars

(***************************************************************************)
(* Properties of the resolver (SpecResolve).                               *)
(***************************************************************************)
ResolvedVersion == resolve.pkg.Versions[FindVersion(resolve.pkg, resolve.version)]

VersionListed == \E i \in DOMAIN resolve.pkg.Versions :
                   resolve.pkg.Versions[i].Version = resolve.version

HasBothKeys ==
  /\ resolve.pc = "done"
  /\ VersionListed
  /\ {"all", PlatformKey(goos, goarch)} \subseteq DOMAIN ResolvedVersion.Downloads

\* C9 as stated: when the downloads map of the version holds both the
\* running platform's key and "all", GetDownloadURL returns the location of
\* the platform key.
C9_PlatformKeyFirst ==
  HasBothKeys =>
    /\ resolve.out.err = "nil"
    /\ resolve.out.url = ResolvedVersion.Downloads[PlatformKey(goos, goarch)]

\* C9 amended: GetDownloadURL looks up "all" first and the platform key
\* second; with both present it returns the location of "all".
C9_WildcardFirst ==
  HasBothKeys =>
    /\ resolve.out.err = "nil"
    /\ resolve.out.url = ResolvedVersion.Downloads["all"]

C9_Witness ==
  /\ HasBothKeys
  /\ ResolvedVersion.Downloads["all"] #
       ResolvedVersion.Downloads[PlatformKey(goos, goarch)]

\* C10: GetDownloadURL fails with version-not-found exactly when the version
\* is not listed, with no-download-for-platform exactly when the version is
\* listed and its downloads map has neither the platform key nor "all", and
\* returns a location of that map and no error in every other case.
C10_ResolveErrors ==
  resolve.pc = "done" =>
    LET out == resolve.out
        covered == /\ VersionListed
                   /\ {"all", PlatformKey(goos, goarch)} \cap
                        DOMAIN ResolvedVersion.Downloads # {}
    IN /\ out.err \in {"nil", "version_not_found", "no_download"}
       /\ (out.err = "version_not_found") <=> ~VersionListed
       /\ (out.err = "no_download") <=> (VersionListed /\ ~covered)
       /\ out.err = "nil" =>
            out.url \in {ResolvedVersion.Downloads[k] :
                           k \in DOMAIN ResolvedVersion.Downloads}

\* redis 7.2.3 resolved on a platform for which it has no download.
C10_Witness ==
  /\ resolve.pc = "done"
  /\ resolve.pkg.ID = "redis"
  /\ resolve.version = "7.2.3"
  /\ resolve.out.err = "no_download"

(***************************************************************************)
(* Properties of the extractor (SpecExtract).                              *)
(***************************************************************************)
RECURSIVE Unpacked(_, _, _, _)
\* The tree that results from writing every entry, in order, below dest,
\* with the first component of its name removed or not.
Unpacked(fs, entries, dest, strip) ==
  IF entries = <<>> THEN fs
  ELSE LET e == Head(entries)
           path == Join(dest, IF strip THEN Tail(e.name) ELSE e.name)
           fs1 == IF strip /\ Len(e.name) = 1 THEN fs
                  ELSE IF e.type = "dir" THEN MkdirAll(fs, path)
                  ELSE WriteFile(MkdirAll(fs, Dir(path)), path, Data(e.data))
       IN Unpacked(fs1, Tail(entries), dest, strip)

\* Every entry lies below one and the same top-level directory.
SingleRoot(entries) ==
  /\ entries # <<>>
  /\ \A i \in DOMAIN entries :
       /\ entries[i].name[1] = entries[1].name[1]
       /\ entries[i].name[1] # ""
       /\ Len(entries[i].name) > 1 \/ entries[i].type = "dir"

\* Two distinct top-level names, or a file directly at the top level.
ManyRoots(entries) ==
  \/ \E i, j \in DOMAIN entries : entries[i].name[1] # entries[j].name[1]
  \/ \E i \in DOMAIN entries : Len(entries[i].name) = 1 /\ entries[i].type = "reg"

Extracted(c) == inst[c].pc = "configuring"

EmptyDest == [d |-> ExtractDirs, f |-> NoFiles]

\* C7: for a zip or tar archive whose entries all lie below the same single
\* top-level directory, extractArchive writes every entry with that component
\* removed and creates nothing that still carries it.
C7_RootStripped ==
  (/\ Extracted("c1")
   /\ inst["c1"].ext \in ZipFormats \cup TarGzFormats
   /\ SingleRoot(inst["c1"].entries))
  => FS = Unpacked(EmptyDest, inst["c1"].entries, ExtractDest, TRUE)

\* C8: for every archive format, when the entries lie below two or more
\* top-level names or a file sits at the top level, extractArchive strips
\* nothing: every entry is written at destDir joined with its original path.
C8_NothingStripped ==
  (/\ Extracted("c1")
   /\ inst["c1"].ext \in ArchiveFormats
   /\ ManyRoots(inst["c1"].entries))
  => FS = Unpacked(EmptyDest, inst["c1"].entries, ExtractDest, FALSE)

\* C23: whatever extractZip or extractTar creates lies inside destDir, for
\* every entry name, names with ".." components included.
C23_InsideDest ==
  inst["c1"].ext \in ZipFormats \cup TarGzFormats =>
    \A p \in dirs \cup DOMAIN files :
      \/ p \in ExtractDirs
      \/ p = ExtractSrc
      \/ IsPrefix(ExtractDest, p)

(***************************************************************************)
(* Properties of the orchestrator (Spec).                                  *)
(***************************************************************************)
Stages == <<"downloading", "extracting", "configuring", "complete">>

StageOf(status) == CHOOSE k \in 1..4 : Stages[k] = status

\* C1: the statuses one InstallPortablePackage call reports (callback and
\* returned InstallProgress) run through downloading, extracting,
\* configuring, complete in that order, optionally ended by error: no stage
\* is skipped or revisited and nothing follows complete or error.
C1_StatusOrder ==
  \A c \in CallerIDs :
    LET r == inst[c].reported
    IN /\ \A i \in DOMAIN r : r[i].Status \in {Stages[k] : k \in 1..4} \cup {"error"}
       /\ r # <<>> => r[1].Status = "downloading"
       /\ \A i \in 1..(Len(r) - 1) :
            /\ r[i].Status # "error"
            /\ r[i].Status = "complete" => r[i + 1].Status = "complete"
            /\ \/ r[i + 1].Status = "error"
               \/ r[i + 1].Status = r[i].Status
               \/ StageOf(r[i + 1].Status) = StageOf(r[i].Status) + 1

\* An install that went through all four stages and returned complete.
C1_Witness ==
  \E c \in CallerIDs :
    /\ inst[c].pc = "returned"
    /\ inst[c].progress.Status = "complete"
    /\ {inst[c].reported[i].Status : i \in DOMAIN inst[c].reported} =
         {Stages[k] : k \in 1..4}

LeqFrac(a, b) == a.num * b.den <= b.num * a.den

\* The range of the numeric progress in each stage.
StageRange(status) ==
  IF status = "downloading" THEN <<Frac(0, 1), Frac(50, 1)>>
  ELSE IF status = "extracting" THEN <<Frac(50, 1), Frac(90, 1)>>
  ELSE IF status = "configuring" THEN <<Frac(90, 1), Frac(100, 1)>>
  ELSE <<Frac(100, 1), Frac(100, 1)>>

\* C21: in the snapshots of one install call the progress lies in the range
\* of its stage (downloading 0-50, extracting 50-90, configuring 90-100,
\* complete 100), the progress of the download loop is downloaded/total*50,
\* and the progress never decreases from one snapshot to the next.
C21_ProgressRanges ==
  \A c \in CallerIDs :
    LET r == inst[c].reported
    IN /\ \A i \in DOMAIN r :
            /\ r[i].Progress.den > 0
            /\ r[i].Status # "error" =>
                 /\ LeqFrac(StageRange(r[i].Status)[1], r[i].Progress)
                 /\ LeqFrac(r[i].Progress, StageRange(r[i].Status)[2])
       /\ \A i \in 1..(Len(r) - 1) : LeqFrac(r[i].Progress, r[i + 1].Progress)
       /\ (inst[c].pc = "reading" /\ inst[c].total > 0 /\ inst[c].downloaded > 0) =>
            /\ r[Len(r)].Status = "downloading"
            /\ r[Len(r)].Progress.num * inst[c].total =
                 inst[c].downloaded * 50 * r[Len(r)].Progress.den

\* A complete install whose download reported a progress strictly between 0
\* and 50.
C21_Witness ==
  \E c \in CallerIDs :
    /\ inst[c].pc = "returned"
    /\ inst[c].progress.Status = "complete"
    /\ \E i \in DOMAIN inst[c].reported :
         /\ inst[c].reported[i].Status = "downloading"
         /\ inst[c].reported[i].Progress.num > 0
         /\ ~LeqFrac(Frac(50, 1), inst[c].reported[i].Progress)

\* The config file the catalog declares for the package of a call.
DeclaredConfig(call) ==
  Join(InstallPathOf(GetPortablePackageByID(call.id), call.version),
       GetPortablePackageByID(call.id).ConfigFile)

\* C22: the configuring step of an install changes no file that is there
\* when it starts, and the only file it creates is the declared config file
\* of a package that declares one, at a path where nothing was.
C22_ConfigOnlyWhenAbsent ==
  [][\A c \in CallerIDs :
       (inst[c].pc = "configuring" /\ inst'[c].pc = "returned") =>
         /\ dirs' = dirs
         /\ \A p \in DOMAIN files : p \in DOMAIN files' /\ files'[p] = files[p]
         /\ \A p \in (DOMAIN files') \ (DOMAIN files) :
              /\ GetPortablePackageByID(inst[c].id).ConfigFile # NoConfig
              /\ p = DeclaredConfig(inst[c])
              /\ ~Exists(FS, p)
              /\ files'[p] = Data(CreateDefaultTemplate(inst[c].id))]_vars

\* A complete install of a package whose archive ships the declared config
\* file: the file holds what the archive holds, not the template.
C22_Witness ==
  \E c \in CallerIDs :
    /\ inst[c].pc = "returned"
    /\ inst[c].progress.Status = "complete"
    /\ mon.lastOp = "install_complete"
    /\ GetPortablePackageByID(inst[c].id).ConfigFile # NoConfig
    /\ DeclaredConfig(inst[c]) \in DOMAIN files
    /\ files[DeclaredConfig(inst[c])].kind = "data"
    /\ files[DeclaredConfig(inst[c])] # Data(CreateDefaultTemplate(inst[c].id))

CleanInstall == Under(InstallTree(Len(served), TRUE), FocusPath)

\* C3: two installs of the same (package id, version) in a row, the first
\* into an absent directory and no uninstall in between: when the second
\* returns complete the install directory holds exactly what one clean
\* install leaves, and otherwise it returns status error with the error
\* attached; no second install returns complete over a mix of old and new
\* files.
C3_ReinstallIdempotent ==
  /\ mon.twice \in {"first_done", "second_done"} => Under(FS, FocusPath) = CleanInstall
  /\ (mon.twice = "second_done" /\ IsFocus(inst["c1"].id, inst["c1"].version)) =>
       /\ inst["c1"].pc = "returned"
       /\ inst["c1"].progress.Status = "complete"
       /\ inst["c1"].err = "nil"
  /\ (mon.twice = "second_failed" /\ IsFocus(inst["c1"].id, inst["c1"].version)) =>
       /\ inst["c1"].pc = "returned"
       /\ inst["c1"].progress.Status = "error"
       /\ inst["c1"].progress.Error # ""
       /\ inst["c1"].err # "nil"

C3_Witness ==
  /\ mon.twice = "second_done"
  /\ IsFocus(inst["c1"].id, inst["c1"].version)
  /\ inst["c1"].progress.Status = "complete"
  /\ Len(db) = 2
  /\ DOMAIN CleanInstall.f # {}

\* The snapshot a returned call ended with is the error snapshot of the
\* stage it had reached: status error, the error text, and the package,
\* version, install path and progress value last reported.
ErrorKeepsProgress(call) ==
  /\ call.progress.Status = "error"
  /\ call.progress.Error # ""
  /\ call.progress.PackageID = call.id
  /\ call.progress.Version = call.version
  /\ call.progress.InstallPath =
       InstallPathOf(GetPortablePackageByID(call.id), call.version)
  /\ Len(call.reported) >= 2
  /\ call.reported[Len(call.reported)].Progress =
       call.reported[Len(call.reported) - 1].Progress

\* C11: every InstallPortablePackage call that returns ends with an
\* InstallProgress in status complete with progress 100, or in status error
\* with the error text attached and the package, version, install path and
\* progress value reached before the failure.
C11_TerminalSnapshot ==
  \A c \in CallerIDs :
    inst[c].pc = "returned" =>
      /\ ~inst[c].nilResult
      /\ \/ /\ inst[c].progress.Status = "complete"
            /\ inst[c].progress.Progress = Frac(100, 1)
         \/ ErrorKeepsProgress(inst[c])

LookupErrors == {"package_not_found", "version_not_found", "no_download"}

\* C12: a call whose package id, version or platform download cannot be
\* resolved returns an InstallProgress in status error, having created no
\* directory and begun no download.
C12_FailFastSnapshot ==
  \A c \in CallerIDs :
    (inst[c].pc = "returned" /\ inst[c].err \in LookupErrors) =>
      /\ ~inst[c].nilResult
      /\ inst[c].progress.Status = "error"
      /\ inst[c].progress.Error # ""

Rows == {db[i] : i \in DOMAIN db}

\* C13: after an UninstallPortablePackage call on an existing install
\* directory, whether the removal of the directory succeeded or failed, the
\* metadata store holds no record for that (package id, version).
C13_RecordDeleted ==
  (/\ ret.op = "uninstall"
   /\ ret.err \in {"nil", "remove"}
   /\ mon.lastOp \in {"uninstall_ok", "uninstall_err"}
   /\ ~AnyInFlight)
  => Row(ret.id, ret.version) \notin Rows

\* C24: when the focus instance was not installed and the download step of
\* its install fails, GetServiceStatus answers not-installed for it and
\* GetInstalledPortablePackages does not list it.
C24_FailedDownloadNotInstalled ==
  \A c \in CallerIDs :
    (/\ inst[c].pc = "returned"
     /\ inst[c].err = "download"
     /\ IsFocus(inst[c].id, inst[c].version)
     /\ mon.lastOp = "install_error"
     /\ mon.prevOp = "none")
    => /\ GetServiceStatus(focus.id, focus.version).err = "not_installed"
       /\ focus \notin GetInstalledPortablePackages

SuccessfulOps == {"none", "install_complete", "uninstall_ok"}

\* C25: after a sequence of successful install and uninstall calls the
\* InstalledPackage table holds at most one row per (package id, version),
\* and none for an instance whose last successful call was an uninstall.
C25_OneRecordPerInstance ==
  (/\ ~AnyInFlight
   /\ faults = 0
   /\ mon.lastOp \in SuccessfulOps
   /\ mon.prevOp \in SuccessfulOps)
  => /\ \A i, j \in DOMAIN db : db[i] = db[j] => i = j
     /\ mon.lastOp = "uninstall_ok" => Row(focus.id, focus.version) \notin Rows

\* C19: when the extraction of an install fails, the call returns status
\* error and the install directory it was extracting into is not left on
\* disk.
C19_FailedExtractCleaned ==
  \A c \in CallerIDs :
    (/\ inst[c].pc = "returned"
     /\ inst[c].progress.Status = "error"
     /\ \E k \in DOMAIN inst[c].reported : inst[c].reported[k].Status = "extracting"
     /\ IsFocus(inst[c].id, inst[c].version)
     /\ mon.lastOp = "install_error")
    => ~Exists(FS, inst[c].progress.InstallPath)

(***************************************************************************)
(* Properties of the supervisor (SpecSupervisor).                          *)
(***************************************************************************)
StartedNothing ==
  /\ st.pc = "returned"
  /\ st.err # "nil"
  /\ st.spawned = {}
  /\ ~st.initRan
  /\ ~st.created
  /\ ~\E p \in procs : p.call = st.call

\* C4 as stated: a StartService call on a catalog package whose install
\* directory or platform-specific catalog executable is missing returns an
\* error, spawns no initialization or daemon process and creates no file or
\* directory.
C4_MissingCatalogExecutable ==
  (/\ st.pc # "idle"
   /\ st.id \in CatalogIDs
   /\ (st.installMissing \/ st.catalogExecMissing))
  => StartedNothing

\* C4 amended: a StartService call on a catalog package whose install
\* directory is missing, or whose executable StartService looks for (php-cgi
\* for php, the platform-specific catalog executable for every other package)
\* is missing or not defined, returns an error, spawns no initialization or
\* daemon process and creates no file or directory.
C4_MissingCheckedExecutable ==
  (/\ st.pc # "idle"
   /\ st.id \in CatalogIDs
   /\ (st.installMissing \/ st.checkedExecMissing))
  => StartedNothing

\* A start of a database package in an install directory that exists and
\* lacks the executable.
C4_Witness ==
  /\ st.pc = "returned"
  /\ st.id \in {"mysql", "mariadb"}
  /\ ~st.installMissing
  /\ st.checkedExecMissing
  /\ st.err = "executable_not_found"

\* C5: for mysql and mariadb, when the data directory lacks the primary data
\* file the initialization command is run and has finished before the daemon
\* is spawned; no daemon is spawned while the initialization of its call is
\* running; no initialization is run when the data file is present, nor for
\* any other package.
C5_InitBeforeDaemon ==
  /\ \A d \in procs : \A i \in procs :
       (d.role = "daemon" /\ i.role = "init") => d.call # i.call
  /\ ~st.initAtSpawn
  /\ ("daemon" \in st.spawned /\ st.dataFileMissing) => (st.initRan /\ InitReturned(st.call))
  /\ st.initRan => (st.dataFileMissing /\ st.id \in {"mysql", "mariadb"})
  /\ st.dataFileMissing => st.id \in {"mysql", "mariadb"}
  /\ \A p \in procs : p.role = "init" => p.id \in {"mysql", "mariadb"}

\* A start that initialized the data directory and then spawned the daemon.
C5_Witness ==
  /\ st.pc = "returned"
  /\ st.id \in {"mysql", "mariadb"}
  /\ st.initRan
  /\ "daemon" \in st.spawned
  /\ \E p \in procs : p.role = "daemon" /\ p.call = st.call

\* C6: for every catalog package, a StopService call made while no process
\* matches the package's process name returns no error.
C6_StopWithoutProcess ==
  (/\ ret.op = "stop"
   /\ ret.id \in CatalogIDs
   /\ ret.matched = 0)
  => ret.err = "nil"

\* C26: StopService(package id, version) ends only processes started from
\* that package and version; the daemon of another version, or of mariadb
\* next to mysql, survives it.
C26_StopOwnInstance ==
  [][(ops' = ops + 1 /\ ret'.op = "stop" /\ ret'.seq = ops') =>
       \A p \in procs \ procs' : p.id = ret'.id /\ p.version = ret'.version]_vars

\* C27: the path StartService hands to exec.Command, for the initialization
\* and for the daemon, is the path whose existence it checked.
C27_SpawnsCheckedPath ==
  (st.pc \in {"init_wait", "returned"} /\ st.cmd # <<>>) =>
    st.cmd = CheckedExec(GetPortablePackageByID(st.id),
                         InstallPathOf(GetPortablePackageByID(st.id), st.version))

ShutdownPackages == {"nginx", "mysql", "mariadb", "redis"}

\* C14: for nginx, mysql, mariadb and redis, StopService runs the graceful
\* shutdown command first, and runs the forceful termination by process name
\* after it exactly when the graceful command failed.
C14_GracefulFirst ==
  (ret.op = "stop" /\ ret.id \in ShutdownPackages) =>
    /\ ret.graceful \in {"ok", "failed"}
    /\ ret.steps \in {<<"graceful">>, <<"graceful", "kill">>}
    /\ (ret.steps = <<"graceful", "kill">>) <=> (ret.graceful = "failed")

\* A stop whose shutdown command failed and whose fallback ended a running
\* daemon.
C14_Witness ==
  /\ ret.op = "stop"
  /\ ret.id \in ShutdownPackages
  /\ ret.graceful = "failed"
  /\ ret.steps = <<"graceful", "kill">>
  /\ ret.matched > 0
  /\ ret.killErr = "nil"

\* C15: for nginx, mysql, mariadb and redis, StopService returns success
\* only if the graceful command succeeded, the forceful termination
\* succeeded, or no process was running; a graceful failure followed by a
\* failed forceful termination is returned as an error.
C15_StopSurfacesFailure ==
  (ret.op = "stop" /\ ret.id \in ShutdownPackages /\ ret.err = "nil") =>
    \/ ret.graceful = "ok"
    \/ ret.killErr = "nil"
    \/ ret.matched = 0

\* C16: RestartService runs the stop step and then the start step, whatever
\* the stop step returned, and returns exactly what the start step returned.
C16_RestartReturnsStart ==
  st.restart =>
    /\ st.pc \in {"restart_stopped", "init_wait", "returned"}
    /\ st.pc = "restart_stopped" => st.steps = <<"stop">>
    /\ st.pc \in {"init_wait", "returned"} => st.steps = <<"stop", "start">>
    /\ st.pc = "returned" => st.result = st.err

\* A restart whose stop step failed and whose start step succeeded.
C16_Witness ==
  /\ st.restart
  /\ st.pc = "returned"
  /\ st.stopErr # "nil"
  /\ st.err = "nil"
  /\ st.result = "nil"
  /\ \E p \in procs : p.call = st.call /\ p.role = "daemon"

ToolPackages == {"nodejs", "composer"}

\* C17: for an installed package that is no daemon and has an executable
\* (nodejs, composer), GetServiceStatus reports running exactly when the
\* executable is on disk.
C17_AvailableMeansRunning ==
  (/\ ret.op = "status"
   /\ ret.err = "nil"
   /\ ret.seq = ops
   /\ ret.id \in ToolPackages)
  => (ret.status.Running <=>
        Exists(FS, Join(ret.status.InstallPath,
                        GetPortablePackageByID(ret.id).Executable[goos])))

\* C18: a GetConfig call that resolves a config path leaves the file system
\* as it found it and returns the content of the file when the file is
\* there, the default template of the package otherwise.
C18_ReadOnlyConfig ==
  [][(/\ ops' = ops + 1
      /\ ret'.op = "get_config"
      /\ ret'.seq = ops'
      /\ ret'.err = "nil")
     => /\ dirs' = dirs
        /\ files' = files
        /\ ~ret'.wrote
        /\ ret'.path # <<>>
        /\ ret'.content = IF ret'.path \in DOMAIN files THEN files[ret'.path]
                          ELSE GetDefaultConfig(ret'.id)]_vars

\* The second of two reads of a config file that is not on disk, answered
\* from the template.
C18_Witness ==
  /\ ret.op = "get_config"
  /\ ret.err = "nil"
  /\ ret.seq = 2
  /\ ret.path \notin DOMAIN files
  /\ ret.content = GetDefaultConfig(ret.id)
  /\ Exists(FS, InstallPathOf(GetPortablePackageByID(ret.id), ret.version))

\* C28: the config path GetConfig reads and SaveConfig writes is the
\* ConfigPath GetServiceStatus reports for the instance and, for a package
\* that declares a config file, the path createDefaultConfig writes.
C28_OneConfigPath ==
  (/\ ret.op \in {"get_config", "save_config"}
   /\ ret.err = "nil"
   /\ ret.seq = ops)
  => /\ GetServiceStatus(ret.id, ret.version).err = "nil" =>
          GetServiceStatus(ret.id, ret.version).status.ConfigPath = ret.path
     /\ GetPortablePackageByID(ret.id).ConfigFile # NoConfig =>
          DeclaredConfig(ret) = ret.path

(***************************************************************************)
(* Properties of the websocket hub (SpecHubFair).                          *)
(***************************************************************************)
\* C29: the Run loop never blocks forever: when a write to a client fails
\* during a broadcast, that client is eventually removed from the clients
\* and Run is back at its select.
C29_RunGoesOn ==
  (hub.pc = "send_unregister")
    ~> (hub.pc = "select" /\ hub.client \notin hub.clients)

(***************************************************************************)
(* Properties of the cron service (SpecCron).                              *)
(***************************************************************************)
\* C30: under every interleaving of AddJob, ToggleJob and RemoveJob calls no
\* job id has two live scheduler entries, and once every call has returned
\* each live entry is the one jobMap records for its job and belongs to a
\* job that is in the table and enabled.
C30_OneEntryPerJob ==
  /\ \A e1, e2 \in cron.cronScheduler : e1.job = e2.job => e1 = e2
  /\ (\A c \in CronCallers : cron.call[c].pc = "idle")
     => \A e \in cron.cronScheduler :
          /\ cron.jobMap[e.job] = e.entryID
          /\ cron.jobs[e.job] # NoJob
          /\ cron.jobs[e.job].Enabled

(***************************************************************************)
(* Properties of concurrent installs.                                      *)
(***************************************************************************)
\* C20: two installs of the same (package id, version) that are in flight at
\* the same time use the same scratch file and the same install directory;
\* nothing keeps the second from starting while the first is running.
C20_SharedPaths ==
  \A a, b \in CallerIDs :
    (/\ InFlight(a)
     /\ InFlight(b)
     /\ inst[a].id = inst[b].id
     /\ inst[a].version = inst[b].version)
    => /\ inst[a].tempFile = inst[b].tempFile
       /\ inst[a].installPath = inst[b].installPath

\* Both calls in flight on one instance, each with a chunk written to the one
\* scratch file.
C20_Witness ==
  /\ inst["c1"].pc = "reading"
  /\ inst["c2"].pc = "reading"
  /\ inst["c1"].id = inst["c2"].id
  /\ inst["c1"].version = inst["c2"].version
  /\ inst["c1"].downloaded >= 1
  /\ inst["c2"].downloaded >= 1
  /\ inst["c1"].tempFile = inst["c2"].tempFile
  /\ inst["c1"].installPath = inst["c2"].installPath
  /\ inst["c1"].tempFile \in DOMAIN files
  /\ files[inst["c1"].tempFile].gen = inst["c1"].fd
  /\ files[inst["c1"].tempFile].gen = inst["c2"].fd

====
